---------------------------- MODULE Spec2Model ----------------------------
(***************************************************************************)
(* Model of the makeup.com.ua price scraper: the sale-rule matching of     *)
(* parser.py (Product.from_url and its helpers), the per-variant price     *)
(* evaluation, and the row filtering of make_xlsx.py and of                *)
(* src/excel_processor.py.                                                 *)
(*                                                                         *)
(* Python values are records with a "kind" field.  A str is the sequence   *)
(* of its symbols; a symbol is one character, or a literal piece of text   *)
(* that the program only ever handles whole.  A number is the fraction n/d *)
(* in lowest terms with its Python type t ("int", "float" or "bool"): a    *)
(* float is modelled by the exact value of the one division that made it.  *)
(***************************************************************************)
EXTENDS Integers, Sequences, FiniteSets, TLC

VARIABLES
    config,     \* Config(): the loaded configuration (its sale_list)
    call,       \* the function under evaluation and its arguments
    ret,        \* what it returned ([kind |-> "pending"] before the call)
    pc,         \* where process_product_list stands
    files,      \* the input and output files on disk
    usd_rate,   \* the rate get_usd() returned
    nrows,      \* the number of input rows read so far
    cur,        \* the last iteration of the loop: its row, page and outcome
    sale_products, regular_products, error_products,
                \* the three lists of process_product_list
    sheet,      \* worksheet: the data rows written, with their row index
    log,        \* the calls of the run so far that reach outside: get_usd,
                \* and each iteration of the loop with what it gave
    heap,       \* the class attributes of the singletons and their objects
    threads     \* the threads that call the singletons: where each stands

\* The state of a run of process_product_list.
driver == <<pc, files, usd_rate, nrows, cur, sale_products, regular_products,
            error_products, sheet, log>>

run == <<driver, heap, threads>>

vars == <<config, call, ret, run>>

---------------------------------------------------------------------------
(* Python values *)

None == [kind |-> "None"]

Str(s) == [kind |-> "str", s |-> s]

Pending == [kind |-> "pending"]

\* The outcome of a call: it returned v, or it raised the exception exc.
Return(v) == [raise |-> FALSE, v |-> v]
Raise(exc) == [raise |-> TRUE, exc |-> exc]

\* bool(value) of an Optional[str]: None and '' are falsy.
Truthy(v) == v.kind = "str" /\ Len(v.s) > 0

Abs(i) == IF i < 0 THEN -i ELSE i

RECURSIVE Gcd(_, _)
Gcd(a, b) == IF b = 0 THEN a ELSE Gcd(b, a % b)

\* The fraction n/d (d # 0) in lowest terms with a positive denominator.
Reduced(n, d, t, g, s) ==
    [kind |-> "num", n |-> s * (n \div g), d |-> s * (d \div g), t |-> t]

Num(n, d, t) == Reduced(n, d, t, Gcd(Abs(n), Abs(d)), IF d < 0 THEN -1 ELSE 1)

PyInt(i) == [kind |-> "num", n |-> i, d |-> 1, t |-> "int"]

PyBool(b) == [kind |-> "num", n |-> IF b THEN 1 ELSE 0, d |-> 1, t |-> "bool"]

\* The type of a + b, a - b, a * b: float if either is, else int.
ArithType(a, b) == IF a.t = "float" \/ b.t = "float" THEN "float" ELSE "int"

NumAdd(a, b) == Num(a.n * b.d + b.n * a.d, a.d * b.d, ArithType(a, b))
NumSub(a, b) == Num(a.n * b.d - b.n * a.d, a.d * b.d, ArithType(a, b))
NumMul(a, b) == Num(a.n * b.n, a.d * b.d, ArithType(a, b))
\* True division (b # 0): the result is a float whatever the operands.
NumDiv(a, b) == Num(a.n * b.d, a.d * b.n, "float")

\* Python's ==, < on numbers compare values, not types (600.0 == 600).
NumEq(a, b) == a.n * b.d = b.n * a.d
NumLt(a, b) == a.n * b.d < b.n * a.d

\* needle in haystack, on the symbols of two str.
IsSubstring(needle, haystack) ==
    \E i \in 0..(Len(haystack) - Len(needle)) :
        \A k \in 1..Len(needle) : haystack[i + k] = needle[k]

---------------------------------------------------------------------------
(* eval(price_formula): Python's expression grammar restricted to the      *)
(* shapes the configuration uses: test ::= cmp ['if' cmp 'else' test],     *)
(* cmp ::= arith [('>' | '<' | '==') arith], arith ::= term (('+' | '-')   *)
(* term)*, term ::= atom (('*' | '/') atom)*, atom ::= 'x' | NUMBER.       *)

\* The digit characters int() accepts, with their values.
DecimalDigit ==
    ("0" :> 0) @@ ("1" :> 1) @@ ("2" :> 2) @@ ("3" :> 3) @@ ("4" :> 4) @@
    ("5" :> 5) @@ ("6" :> 6) @@ ("7" :> 7) @@ ("8" :> 8) @@ ("9" :> 9)

\* str.isdigit() is also true of digits int() rejects, such as U+00B2.
IsDigitChar(c) == c \in DOMAIN DecimalDigit \/ c = "SUP2"

\* The NUMBER tokens of the formulas, with their values.
NumberToken ==
    ("0" :> 0) @@ ("1" :> 1) @@ ("2" :> 2) @@ ("3" :> 3) @@
    ("100" :> 100) @@ ("680" :> 680)

ParseFail == [ok |-> FALSE]

\* The tokenizer drops the blanks between tokens.
Tokenize(formula) == SelectSeq(formula, LAMBDA c : c # " ")

ParseAtom(toks, i) ==
    IF i > Len(toks) THEN ParseFail
    ELSE IF toks[i] = "x" THEN [ok |-> TRUE, ast |-> [op |-> "x"], next |-> i + 1]
    ELSE IF toks[i] \in DOMAIN NumberToken
         THEN [ok |-> TRUE, ast |-> [op |-> "num", v |-> NumberToken[toks[i]]],
               next |-> i + 1]
    ELSE ParseFail

\* term: a left-associative chain of * and / over atoms.
RECURSIVE ParseTermRest(_, _, _)
ParseTermStep(toks, left, op, r) ==
    IF r.ok THEN ParseTermRest(toks, [op |-> op, l |-> left, r |-> r.ast], r.next)
    ELSE ParseFail

ParseTermRest(toks, left, i) ==
    IF i <= Len(toks) /\ toks[i] \in {"*", "/"}
    THEN ParseTermStep(toks, left, toks[i], ParseAtom(toks, i + 1))
    ELSE [ok |-> TRUE, ast |-> left, next |-> i]

ParseTermFrom(toks, a) ==
    IF a.ok THEN ParseTermRest(toks, a.ast, a.next) ELSE ParseFail

ParseTerm(toks, i) == ParseTermFrom(toks, ParseAtom(toks, i))

\* arith: a left-associative chain of + and - over terms.
RECURSIVE ParseArithRest(_, _, _)
ParseArithStep(toks, left, op, r) ==
    IF r.ok THEN ParseArithRest(toks, [op |-> op, l |-> left, r |-> r.ast], r.next)
    ELSE ParseFail

ParseArithRest(toks, left, i) ==
    IF i <= Len(toks) /\ toks[i] \in {"+", "-"}
    THEN ParseArithStep(toks, left, toks[i], ParseTerm(toks, i + 1))
    ELSE [ok |-> TRUE, ast |-> left, next |-> i]

ParseArithFrom(toks, a) ==
    IF a.ok THEN ParseArithRest(toks, a.ast, a.next) ELSE ParseFail

ParseArith(toks, i) == ParseArithFrom(toks, ParseTerm(toks, i))

\* cmp: one optional comparison of two arith.
ParseCmpRight(a, op, b) ==
    IF b.ok THEN [ok |-> TRUE, ast |-> [op |-> op, l |-> a.ast, r |-> b.ast],
                  next |-> b.next]
    ELSE ParseFail

ParseCmpFrom(toks, a) ==
    IF ~a.ok THEN ParseFail
    ELSE IF a.next <= Len(toks) /\ toks[a.next] \in {">", "<", "=="}
         THEN ParseCmpRight(a, toks[a.next], ParseArith(toks, a.next + 1))
    ELSE a

ParseCmp(toks, i) == ParseCmpFrom(toks, ParseArith(toks, i))

\* test: cmp, or the conditional expression "cmp if cmp else test".
RECURSIVE ParseTest(_, _)
ParseTestElse(a, c, b) ==
    IF b.ok THEN [ok |-> TRUE,
                  ast |-> [op |-> "ifelse", then |-> a.ast, cond |-> c.ast,
                           else |-> b.ast],
                  next |-> b.next]
    ELSE ParseFail

ParseTestCond(toks, a, c) ==
    IF c.ok /\ c.next <= Len(toks) /\ toks[c.next] = "else"
    THEN ParseTestElse(a, c, ParseTest(toks, c.next + 1))
    ELSE ParseFail

ParseTestFrom(toks, a) ==
    IF ~a.ok THEN ParseFail
    ELSE IF a.next <= Len(toks) /\ toks[a.next] = "if"
         THEN ParseTestCond(toks, a, ParseCmp(toks, a.next + 1))
    ELSE a

ParseTest(toks, i) == ParseTestFrom(toks, ParseCmp(toks, i))

\* compile(): a SyntaxError unless the whole text is one expression.
ParseWhole(toks, r) == IF r.ok /\ r.next = Len(toks) + 1 THEN r ELSE ParseFail

ParseTokens(toks) == ParseWhole(toks, ParseTest(toks, 1))

ParseFormula(formula) == ParseTokens(Tokenize(formula))

EvalRaise == [ok |-> FALSE]
EvalOk(v) == [ok |-> TRUE, v |-> v]

\* EvalBinary with x > y taken for x >= y.
EvalBinary_ge(op, a, b) ==
    IF ~a.ok \/ ~b.ok THEN EvalRaise
    ELSE CASE op = "+" -> EvalOk(NumAdd(a.v, b.v))
           [] op = "-" -> EvalOk(NumSub(a.v, b.v))
           [] op = "*" -> EvalOk(NumMul(a.v, b.v))
           [] op = "/" -> IF b.v.n = 0 THEN EvalRaise
                          ELSE EvalOk(NumDiv(a.v, b.v))
           [] op = ">" -> EvalOk(PyBool(~NumLt(a.v, b.v)))
           [] op = "<" -> EvalOk(PyBool(NumLt(a.v, b.v)))
           [] op = "==" -> EvalOk(PyBool(NumEq(a.v, b.v)))

\* A binary operator on the values of its operands.
EvalBinary(op, a, b) ==
    IF ~a.ok \/ ~b.ok THEN EvalRaise
    ELSE CASE op = "+" -> EvalOk(NumAdd(a.v, b.v))
           [] op = "-" -> EvalOk(NumSub(a.v, b.v))
           [] op = "*" -> EvalOk(NumMul(a.v, b.v))
           [] op = "/" -> IF b.v.n = 0 THEN EvalRaise  \* ZeroDivisionError
                          ELSE EvalOk(NumDiv(a.v, b.v))
           [] op = ">" -> EvalOk(PyBool(NumLt(b.v, a.v)))
           [] op = "<" -> EvalOk(PyBool(NumLt(a.v, b.v)))
           [] op = "==" -> EvalOk(PyBool(NumEq(a.v, b.v)))

\* Evaluation of the parsed expression with the name x bound to a number;
\* a conditional expression evaluates only the branch its condition selects.
RECURSIVE EvalAst(_, _)
EvalBranch(ast, x, c) ==
    IF ~c.ok THEN EvalRaise
    ELSE IF c.v.n # 0 THEN EvalAst(ast.then, x)
    ELSE EvalAst(ast.else, x)

EvalAst(ast, x) ==
    CASE ast.op = "x" -> EvalOk(x)
      [] ast.op = "num" -> EvalOk(PyInt(ast.v))
      [] ast.op = "ifelse" -> EvalBranch(ast, x, EvalAst(ast.cond, x))
      [] OTHER -> EvalBinary(ast.op, EvalAst(ast.l, x), EvalAst(ast.r, x))

\* eval(price_formula) with x = base_price: the value, or an exception.
EvalParsed(p, x) == IF p.ok THEN EvalAst(p.ast, x) ELSE EvalRaise

EvalFormula(formula, x) == EvalParsed(ParseFormula(formula), x)

---------------------------------------------------------------------------
(* parser.py: the variant elements of a product page.  An element is       *)
(* [title, eu, data_price]: its title attribute (None when absent),        *)
(* whether it holds an <i class="eu rus"> marker, and its data-price       *)
(* attribute (None when absent).                                           *)

SaleParams(text_for_search, apply_to, price_formula, info_text) ==
    [kind |-> "SaleParams", text_for_search |-> text_for_search,
     apply_to |-> apply_to, price_formula |-> price_formula,
     info_text |-> info_text]

Variant(title, eu, price, sale_params, info) ==
    [kind |-> "Variant", title |-> title, eu |-> eu, price |-> price,
     sale_params |-> sale_params, info |-> info]

\* int(s) of a str of decimal digits.
RECURSIVE DigitsToInt(_)
DigitsToInt(s) ==
    IF Len(s) = 0 THEN 0
    ELSE 10 * DigitsToInt(SubSeq(s, 1, Len(s) - 1)) + DecimalDigit[s[Len(s)]]

\* str.isdigit(): at least one character, all of them digits.
IsDigit(s) == Len(s) > 0 /\ \A k \in 1..Len(s) : IsDigitChar(s[k])

\* int(price_str) raises ValueError on a digit that is not a decimal digit.
IntRaises(s) == \E k \in 1..Len(s) : s[k] \notin DOMAIN DecimalDigit

\* Product._extract_price: None for a missing, empty or non-digit attribute.
PriceOf(price_str) ==
    IF ~Truthy(price_str) \/ ~IsDigit(price_str.s) THEN Return(None)
    ELSE IF IntRaises(price_str.s) THEN Raise("ValueError")
    ELSE Return(PyInt(DigitsToInt(price_str.s)))

extract_price(variant) == PriceOf(variant.data_price)

ErrorApplying == "Error applying sale formula '"

\* ErrorNote with the info_text run into the message, without ", but ".
ErrorNote_unjoined(sale_params) ==
    Str((IF Truthy(sale_params.info_text) THEN sale_params.info_text.s ELSE <<>>)
        \o <<ErrorApplying>> \o sale_params.price_formula.s \o <<"'">>)

\* The f-string of the except branch of _calculate_final_price.
ErrorNote(sale_params) ==
    Str((IF Truthy(sale_params.info_text)
         THEN sale_params.info_text.s \o <<", but ">> ELSE <<>>)
        \o <<ErrorApplying>> \o sale_params.price_formula.s \o <<"'">>)

\* ApplyFormula that evaluates the formula and forgets its value.
ApplyFormula_drops_value(base_price, sale_params, e) ==
    IF e.ok
    THEN Return([price |-> base_price,
                 info |-> IF Truthy(sale_params.info_text)
                          THEN sale_params.info_text ELSE Str(<<>>)])
    ELSE Return([price |-> base_price, info |-> ErrorNote(sale_params)])

\* ApplyFormula without its try/except: the exception of eval() leaves it.
ApplyFormula_uncaught(base_price, sale_params, e) ==
    IF e.ok
    THEN Return([price |-> e.v,
                 info |-> IF Truthy(sale_params.info_text)
                          THEN sale_params.info_text ELSE Str(<<>>)])
    ELSE Raise("ZeroDivisionError")

\* ApplyFormula that takes the rule's info_text only when the price changed.
ApplyFormula_note_on_change(base_price, sale_params, e) ==
    IF e.ok
    THEN Return([price |-> e.v,
                 info |-> IF Truthy(sale_params.info_text) /\ ~NumEq(e.v, base_price)
                          THEN sale_params.info_text ELSE Str(<<>>)])
    ELSE Return([price |-> base_price, info |-> ErrorNote(sale_params)])

\* The try block of _calculate_final_price, given what eval() did.
ApplyFormula(base_price, sale_params, e) ==
    IF e.ok
    THEN Return([price |-> e.v,
                 info |-> IF Truthy(sale_params.info_text)
                          THEN sale_params.info_text ELSE Str(<<>>)])
    ELSE Return([price |-> base_price, info |-> ErrorNote(sale_params)])

\* The region of the element is looked up in apply_to only when needed:
\* (eu and apply_to["eu"]) or (not eu and apply_to["ua"]).
GateKey(eu) == IF eu THEN "eu" ELSE "ua"

\* _calculate_final_price without the apply_to test.
calculate_final_price_ungated(base_price, eu, sale_params) ==
    IF sale_params = None
    THEN Return([price |-> base_price, info |-> Str(<<>>)])
    ELSE IF GateKey(eu) \notin DOMAIN sale_params.apply_to THEN Raise("KeyError")
    ELSE ApplyFormula(base_price, sale_params,
                      EvalFormula(sale_params.price_formula.s, base_price))

\* Product._calculate_final_price: (price, variant_info), or the KeyError
\* of an apply_to without the key of the element's region.
calculate_final_price(base_price, eu, sale_params) ==
    IF sale_params = None
    THEN Return([price |-> base_price, info |-> Str(<<>>)])
    ELSE IF GateKey(eu) \notin DOMAIN sale_params.apply_to THEN Raise("KeyError")
    ELSE IF sale_params.apply_to[GateKey(eu)]
         THEN ApplyFormula(base_price, sale_params,
                           EvalFormula(sale_params.price_formula.s, base_price))
    ELSE Return([price |-> base_price, info |-> Str(<<>>)])

\* Product._create_variant_object
create_variant_object(title, eu, sale_params, final_price, info) ==
    Variant(title, eu, final_price, sale_params, info)

\* The tail of _parse_variant passing the rule on whatever the price.
VariantOf_keeps_rule(variant, base_price, sale_params, r) ==
    create_variant_object(variant.title, variant.eu, sale_params, r.price, r.info)

\* The tail of _parse_variant, given (final_price, variant_info).
VariantOf(variant, base_price, sale_params, r) ==
    create_variant_object(
        variant.title, variant.eu,
        IF ~NumEq(r.price, base_price) THEN sale_params ELSE None,
        r.price, r.info)

\* _parse_variant after _calculate_final_price returned (or raised).
ParseVariantFinal(variant, base_price, sale_params, r) ==
    IF r.raise THEN None
    ELSE VariantOf(variant, base_price, sale_params, r.v)

\* _parse_variant after _extract_price returned (or raised).
ParseVariantPriced(variant, sale_params, base) ==
    IF base.raise THEN None
    ELSE IF base.v = None THEN None
    ELSE ParseVariantFinal(variant, base.v, sale_params,
                           calculate_final_price(base.v, variant.eu, sale_params))

\* Product._parse_variant: a Variant, or None for an element without a
\* usable price (and for any exception raised on the way).
parse_variant(variant, sale_params) ==
    ParseVariantPriced(variant, sale_params, extract_price(variant))

---------------------------------------------------------------------------
(* parser.py: Product.from_url.  A page is what the site serves for a URL: *)
(* [fetch, product_item], fetch being "ok" or the exception requests       *)
(* raised.  A product item is [name_tag, brand_tag, message, buy]: the     *)
(* text of the name and brand tags (None when absent), the block           *)
(* div.product-item__message (None when absent, else [attention |-> the    *)
(* text of its a.product-item__attention, or None]), and the block         *)
(* div.product-item__buy (None when absent, else [variants |-> its         *)
(* div.variant elements in page order]).                                   *)

Product(name, brand, url, positions, info, sale_params, has_error) ==
    [kind |-> "Product", name |-> name, brand |-> brand, url |-> url,
     positions |-> positions, info |-> info, sale_params |-> sale_params,
     has_error |-> has_error, ref_price |-> None]

IsBlank(c) == c = " "

\* str.strip(): the text without its leading and trailing blanks.
RECURSIVE LStrip(_)
LStrip(s) == IF Len(s) > 0 /\ IsBlank(s[1]) THEN LStrip(Tail(s)) ELSE s

RECURSIVE RStrip(_)
RStrip(s) ==
    IF Len(s) > 0 /\ IsBlank(s[Len(s)]) THEN RStrip(SubSeq(s, 1, Len(s) - 1)) ELSE s

Strip(s) == RStrip(LStrip(s))

\* ", ".join(items) of a list of str.
RECURSIVE JoinComma(_)
JoinComma(items) ==
    IF Len(items) = 0 THEN <<>>
    ELSE IF Len(items) = 1 THEN items[1].s
    ELSE items[1].s \o <<", ">> \o JoinComma(Tail(items))

\* requests.RequestException and its subclasses.
IsRequestException(exc) == exc \in {"RequestException", "ConnectionError", "HTTPError"}

\* Product._parse_product_name
parse_product_name(product_item) ==
    IF product_item.name_tag # None THEN Str(Strip(product_item.name_tag.s))
    ELSE Str(<<"Unnamed Product">>)

\* Product._parse_brand
parse_brand(product_item) ==
    IF product_item.brand_tag # None THEN Str(Strip(product_item.brand_tag.s))
    ELSE Str(<<"Unrecognized Brand">>)

\* SaleParams.from_dict: data["..."] for the three required keys,
\* data.get("info_text") for the optional one.
from_dict(data) ==
    IF {"text_for_search", "apply_to", "price_formula"} \subseteq DOMAIN data
    THEN Return(SaleParams(data["text_for_search"], data["apply_to"],
                           data["price_formula"],
                           IF "info_text" \in DOMAIN data THEN data["info_text"]
                           ELSE None))
    ELSE Raise("KeyError")

\* The body of the if of the loop of _check_sale_status: the rule is built
\* and then logged with sale_item['info_text'].
SaleDetected(sale_item, built) ==
    IF built.raise THEN built
    ELSE IF "info_text" \notin DOMAIN sale_item THEN Raise("KeyError")
    ELSE built

\* The loop of _check_sale_status over sale_list from entry i on.
RECURSIVE MatchSale(_, _, _)
MatchSale(sale_list, sale_text, i) ==
    IF i > Len(sale_list) THEN Return(None)
    ELSE IF "text_for_search" \notin DOMAIN sale_list[i] THEN Raise("KeyError")
    ELSE IF IsSubstring(sale_list[i]["text_for_search"].s, sale_text)
         THEN SaleDetected(sale_list[i], from_dict(sale_list[i]))
    ELSE MatchSale(sale_list, sale_text, i + 1)

\* Product._check_sale_status: the first rule of sale_list whose
\* text_for_search occurs in the stripped text of the attention link.
check_sale_status(product_item, sale_list) ==
    IF product_item.message = None THEN Return(None)
    ELSE IF product_item.message.attention = None THEN Return(None)
    ELSE MatchSale(sale_list, Strip(product_item.message.attention.s), 1)

\* Product._parse_variants: one entry per variant element, in page order.
parse_variants(product_item, sale_params) ==
    IF product_item.buy = None THEN <<>>
    ELSE [i \in 1..Len(product_item.buy.variants) |->
              parse_variant(product_item.buy.variants[i], sale_params)]

\* Product._handle_missing_product
handle_missing_product(url, info_list) ==
    Product(Str(<<"Unknown">>), Str(<<"Unrecognized">>), url, <<>>,
            Str(<<"Product not found">>), None, TRUE)

\* Product._handle_request_error
handle_request_error(url, info_list) ==
    Product(Str(<<"Unknown">>), Str(<<"Unrecognized">>), url, <<>>,
            Str(JoinComma(Append(info_list, Str(<<"Request error!">>)))), None, TRUE)

\* Product._handle_unexpected_error
handle_unexpected_error(url, info_list) ==
    Product(Str(<<"Unknown">>), Str(<<"Unrecognized">>), url, <<>>,
            Str(JoinComma(Append(info_list, Str(<<"Unexpected error">>)))), None, TRUE)

\* ProductOf that marks the Product of the success path as in error.
ProductOf_flags_error(url, product_item, info_list, name, brand, sale) ==
    IF sale.raise THEN sale
    ELSE Return(Product(name, IF Truthy(brand) THEN brand ELSE Str(<<"Unrecognized">>),
                        url, parse_variants(product_item, sale.v),
                        IF Len(info_list) > 0 THEN Str(JoinComma(info_list)) ELSE None,
                        sale.v, TRUE))

\* from_url once the rule of the page is known: the Product of the
\* success path (info_list is still empty there).
ProductOf(url, product_item, info_list, name, brand, sale) ==
    IF sale.raise THEN sale
    ELSE Return(Product(name, IF Truthy(brand) THEN brand ELSE Str(<<"Unrecognized">>),
                        url, parse_variants(product_item, sale.v),
                        IF Len(info_list) > 0 THEN Str(JoinComma(info_list)) ELSE None,
                        sale.v, FALSE))

\* The try block of from_url: the Product it returns, or what it raises.
FromUrlTry(url, page, sale_list, info_list) ==
    IF page.fetch # "ok" THEN Raise(page.fetch)
    ELSE IF page.product_item = None
         THEN Return(handle_missing_product(url, info_list))
    ELSE ProductOf(url, page.product_item, info_list,
                   parse_product_name(page.product_item),
                   parse_brand(page.product_item),
                   check_sale_status(page.product_item, sale_list))

\* from_url with "except requests.RequestException" alone.
FromUrlExcept_requests_only(url, info_list, r) ==
    IF ~r.raise THEN r
    ELSE IF IsRequestException(r.exc) THEN Return(handle_request_error(url, info_list))
    ELSE r

\* The except clauses of from_url.
FromUrlExcept(url, info_list, r) ==
    IF ~r.raise THEN r
    ELSE IF IsRequestException(r.exc) THEN Return(handle_request_error(url, info_list))
    ELSE Return(handle_unexpected_error(url, info_list))

\* Product.from_url for the page the site serves at url.
from_url(url, page, sale_list) ==
    FromUrlExcept(url, <<>>, FromUrlTry(url, page, sale_list, <<>>))

---------------------------------------------------------------------------
(* make_xlsx.py: parse_ref_price and process_product_row.  An input row is *)
(* the list of the str of one line of the CSV file.                        *)

PyList(items) == [kind |-> "list", items |-> items]

\* s.replace(",", ".")
ReplaceComma(s) == [k \in 1..Len(s) |-> IF s[k] = "," THEN "." ELSE s[k]]

AllDecimal(s) == \A k \in 1..Len(s) : s[k] \in DOMAIN DecimalDigit

RECURSIVE Pow10(_)
Pow10(k) == IF k = 0 THEN 1 ELSE 10 * Pow10(k - 1)

\* The place of the first "." of s, or 0.
DotAt(s) ==
    IF \E k \in 1..Len(s) : s[k] = "."
    THEN CHOOSE k \in 1..Len(s) : s[k] = "." /\ \A j \in 1..(k - 1) : s[j] # "."
    ELSE 0

\* float(s) of digits with at most one ".", given the place of the ".".
FloatAt(s, dot) ==
    IF dot = 0
    THEN IF Len(s) > 0 /\ AllDecimal(s) THEN Return(Num(DigitsToInt(s), 1, "float"))
         ELSE Raise("ValueError")
    ELSE IF Len(s) > 1 /\ AllDecimal(SubSeq(s, 1, dot - 1))
            /\ AllDecimal(SubSeq(s, dot + 1, Len(s)))
         THEN Return(Num(DigitsToInt(SubSeq(s, 1, dot - 1)) * Pow10(Len(s) - dot)
                            + DigitsToInt(SubSeq(s, dot + 1, Len(s))),
                         Pow10(Len(s) - dot), "float"))
    ELSE Raise("ValueError")

\* float(s): the value, or ValueError for a text that is no number.
PyFloat(s) == FloatAt(s, DotAt(s))

\* int(s): the value, or ValueError for a text that is not all digits.
PyIntOf(s) ==
    IF Len(s) > 0 /\ AllDecimal(s) THEN Return(PyInt(DigitsToInt(s)))
    ELSE Raise("ValueError")

\* round(n / d) for n >= 0, d > 0: to the nearest int, a tie to the even one.
RoundHalfEven(n, d) ==
    IF 2 * (n % d) < d THEN n \div d
    ELSE IF 2 * (n % d) > d THEN (n \div d) + 1
    ELSE IF (n \div d) % 2 = 0 THEN n \div d
    ELSE (n \div d) + 1

PyRound(v) == PyInt(RoundHalfEven(v.n, v.d))

\* round(float(...) * usd_rate), or None after the ValueError of float().
RefFromUsd(f, rate) == IF f.raise THEN Return(None) ELSE Return(PyRound(NumMul(f.v, rate)))

\* int(row[3]), or None after the ValueError of int().
RefFromLocal(i) == IF i.raise THEN Return(None) ELSE i

\* parse_ref_price reading the local column before the USD one.
parse_ref_price_local_first(row, rate) ==
    IF Len(row) < 4 THEN Raise("IndexError")
    ELSE IF Truthy(row[4]) THEN RefFromLocal(PyIntOf(row[4].s))
    ELSE IF Truthy(row[3]) THEN RefFromUsd(PyFloat(ReplaceComma(row[3].s)), rate)
    ELSE Return(None)

\* parse_ref_price: the USD column when it is not empty, else the local
\* one; None when neither gives a number.  A row too short for the column
\* it reads raises IndexError, which parse_ref_price does not catch.
parse_ref_price(row, rate) ==
    IF Len(row) < 3 THEN Raise("IndexError")
    ELSE IF Truthy(row[3]) THEN RefFromUsd(PyFloat(ReplaceComma(row[3].s)), rate)
    ELSE IF Len(row) < 4 THEN Raise("IndexError")
    ELSE IF Truthy(row[4]) THEN RefFromLocal(PyIntOf(row[4].s))
    ELSE Return(None)

\* product.info or default
InfoOr(product, default) == IF Truthy(product.info) THEN product.info ELSE default

\* The row of a product without positions.
DiagnosticRow(product, ref_price) ==
    <<product.brand, product.name, None, ref_price, None, None,
      InfoOr(product, Str(<<"Error - no positions">>)), product.url>>

\* The row of one variant of a product.
VariantRow(product, variant, ref_price) ==
    <<product.brand, product.name, variant.title, ref_price, variant.price,
      Str(<<IF variant.eu THEN "EU" ELSE "UA">>), InfoOr(product, Str(<<>>)),
      product.url>>

\* variant.title or ""
TitleOrEmpty(variant) == IF Truthy(variant.title) THEN variant.title.s ELSE <<>>

\* The test of process_product_row on one variant: it passes the title
\* filter, and is cheaper than the reference price or of an error product.
Included(product, variant, ref_price, target_variant) ==
    /\ ~(Truthy(target_variant)
         /\ ~IsSubstring(target_variant.s, TitleOrEmpty(variant)))
    /\ (NumLt(variant.price, ref_price) \/ product.has_error)

\* str(e) of the AttributeError of a position that is None: the loop of
\* process_product_row reads title first under a filter, else price.
NoAttribute(target_variant) ==
    IF Truthy(target_variant) THEN "'NoneType' object has no attribute 'title'"
    ELSE "'NoneType' object has no attribute 'price'"

\* The loop of process_product_row from position i on, rows being the rows
\* so far: a position that is None has no attribute to read.
RECURSIVE VariantRows(_, _, _, _, _)
VariantRows(product, ref_price, target_variant, i, rows) ==
    IF i > Len(product.positions) THEN Return(rows)
    ELSE IF product.positions[i] = None
         THEN Raise(NoAttribute(target_variant))
    ELSE IF Included(product, product.positions[i], ref_price, target_variant)
         THEN VariantRows(product, ref_price, target_variant, i + 1,
                          Append(rows, VariantRow(product, product.positions[i], ref_price)))
    ELSE VariantRows(product, ref_price, target_variant, i + 1, rows)

\* return rows if rows else None
RowsOrNone(r) ==
    IF r.raise THEN r
    ELSE IF Len(r.v) > 0 THEN Return(PyList(r.v))
    ELSE Return(None)

\* process_product_row: the rows of a product, None when it has none.
process_product_row(product, ref_price, target_variant) ==
    IF Len(product.positions) = 0
    THEN IF product.has_error THEN Return(PyList(<<DiagnosticRow(product, ref_price)>>))
         ELSE Return(None)
    ELSE RowsOrNone(VariantRows(product, ref_price, target_variant, 1, <<>>))

---------------------------------------------------------------------------
(* make_xlsx.py: one iteration of the loop of process_product_list, as the *)
(* record of what it did: its outcome, the reference price, the product,   *)
(* and the rows it appended to one of the three lists.                     *)

Iteration(outcome, ref_price, product, processed_rows) ==
    [outcome |-> outcome, ref_price |-> ref_price, product |-> product,
     processed_rows |-> processed_rows]

\* row[1] if len(row) > 1 else None
TargetVariant(row) == IF Len(row) > 1 THEN row[2] ELSE None

\* The except branch of the loop: a product that carries str(e), and its row.
ErrorProduct(row, exc) ==
    Product(Str(<<"Unknown">>), Str(<<"Unrecognized">>), row[1], <<>>, Str(<<exc>>),
            None, TRUE)

\* The loop without its except branch: the exception ends the run.
IterationExcept_raises(row, ref_price, exc) ==
    Iteration("raised", ref_price, None, None)

IterationExcept(row, ref_price, exc) ==
    Iteration("error", ref_price, ErrorProduct(row, exc),
              process_product_row(ErrorProduct(row, exc), ref_price, None).v)

\* The choice of the list with a product in error left out.
IterationRows_drops_errors(row, ref_price, product, rows) ==
    IF rows.raise THEN IterationExcept(row, ref_price, rows.exc)
    ELSE IF rows.v = None \/ product.has_error THEN Iteration("none", ref_price, product, None)
    ELSE IF product.sale_params # None THEN Iteration("sale", ref_price, product, rows.v)
    ELSE Iteration("regular", ref_price, product, rows.v)

\* The choice of the list after process_product_row.
IterationRows(row, ref_price, product, rows) ==
    IF rows.raise THEN IterationExcept(row, ref_price, rows.exc)
    ELSE IF rows.v = None THEN Iteration("none", ref_price, product, None)
    ELSE IF product.has_error THEN Iteration("error", ref_price, product, rows.v)
    ELSE IF product.sale_params # None THEN Iteration("sale", ref_price, product, rows.v)
    ELSE Iteration("regular", ref_price, product, rows.v)

\* The try block of the loop, given what Product.from_url gave.
IterationProduct(row, ref_price, r) ==
    IF r.raise THEN IterationExcept(row, ref_price, r.exc)
    ELSE IterationRows(row, ref_price, r.v,
                       process_product_row(r.v, ref_price, TargetVariant(row)))

\* The body of the loop, given what parse_ref_price gave: an exception of
\* parse_ref_price ends the run, no reference price skips the row.
IterationRef(row, page, sale_list, ref) ==
    IF ref.raise THEN Iteration("raised", None, None, None)
    ELSE IF ref.v = None THEN Iteration("skipped", None, None, None)
    ELSE IterationProduct(row, ref.v, from_url(row[1], page, sale_list))

LoopBody(row, page, rate, sale_list) ==
    IterationRef(row, page, sale_list, parse_ref_price(row, rate))

\* write_products: the rows of the products of one list, in order.
RECURSIVE WrittenRows(_)
WrittenRows(products) ==
    IF Len(products) = 0 THEN <<>>
    ELSE products[1].items \o WrittenRows(Tail(products))

\* worksheet.write at row index linecount: the row takes that place of the
\* worksheet, whatever was there; a place never written is blank (None).
WriteLine(worksheet, linecount, row) ==
    [k \in 1..(IF linecount > Len(worksheet) THEN linecount ELSE Len(worksheet)) |->
        IF k = linecount THEN row
        ELSE IF k <= Len(worksheet) THEN worksheet[k]
        ELSE None]

\* The loops of write_products over rows, the first of them written at
\* linecount, each next one a line further.
RECURSIVE WriteLines(_, _, _)
WriteLines(worksheet, rows, linecount) ==
    IF Len(rows) = 0 THEN worksheet
    ELSE WriteLines(WriteLine(worksheet, linecount, rows[1]), Tail(rows), linecount + 1)

\* write_products: the worksheet after it, and the linecount it returns.
write_products(worksheet, products, linecount) ==
    [worksheet |-> WriteLines(worksheet, WrittenRows(products), linecount),
     linecount |-> linecount + Len(WrittenRows(products))]

\* The third call of write_products, of the error products.
WriteErrors(w, error) == write_products(w.worksheet, error, w.linecount).worksheet

\* The second call of write_products, of the regular products.
WriteRegular(w, regular, error) ==
    WriteErrors(write_products(w.worksheet, regular, w.linecount), error)

\* The three calls of write_products from linecount on: sale, regular, error.
WriteAll(sale, regular, error, linecount) ==
    WriteRegular(write_products(<<>>, sale, linecount), regular, error)

---------------------------------------------------------------------------
(* src/src: MakeupParser.parse_product and the loop body of                *)
(* ExcelProcessor.process_data.                                            *)

ProductVariant(title, price, eu_stock) ==
    [kind |-> "ProductVariant", title |-> title, price |-> price, eu_stock |-> eu_stock]

\* int(element.get("data-price")): TypeError for a missing attribute,
\* ValueError for a text that is no number.
ElementPrice(element) ==
    IF element.data_price = None THEN Raise("TypeError")
    ELSE PyIntOf(element.data_price.s)

\* The variants of the elements from the i-th on; an element without a
\* title or without a price raises.
RECURSIVE ProductVariants(_, _, _)
ProductVariants(elements, i, variants) ==
    IF i > Len(elements) THEN Return(variants)
    ELSE IF elements[i].title = None THEN Raise("ValidationError")
    ELSE IF ElementPrice(elements[i]).raise THEN ElementPrice(elements[i])
    ELSE ProductVariants(elements, i + 1,
             Append(variants, ProductVariant(elements[i].title, ElementPrice(elements[i]).v,
                                             elements[i].eu)))

ParsedProduct(url, name, variants) ==
    IF variants.raise THEN None
    ELSE [kind |-> "Product", name |-> name, url |-> url, variants |-> variants.v]

\* MakeupParser.parse_product: None after any exception.
parse_product(url, page) ==
    IF page.fetch # "ok" THEN None
    ELSE IF page.product_item = None THEN None
    ELSE IF page.product_item.name_tag = None THEN None
    ELSE IF page.product_item.buy = None THEN None
    ELSE ParsedProduct(url, page.product_item.name_tag,
                       ProductVariants(page.product_item.buy.variants, 1, <<>>))

\* line + [""] * (4 - len(line))
PadLine(line) == line \o [k \in 1..(4 - Len(line)) |-> Str(<<>>)]

\* The reference price of a padded line: None when both columns are empty.
LineRefPrice(line, rate) ==
    IF Truthy(line[3])
    THEN IF PyFloat(ReplaceComma(line[3].s)).raise THEN Raise("ValueError")
         ELSE Return(PyRound(NumMul(PyFloat(ReplaceComma(line[3].s)).v, rate)))
    ELSE IF Truthy(line[4]) THEN PyIntOf(line[4].s)
    ELSE Return(None)

\* The test of process_data on one variant.
Written(full_table, ref_price, variant, variant_filter) ==
    full_table
    \/ (~NumLt(ref_price, variant.price)
        /\ (~Truthy(variant_filter) \/ IsSubstring(variant_filter.s, variant.title.s)))

SheetRow(product, variant, ref_price) ==
    <<product.name, variant.title, ref_price, variant.price,
      Str(<<IF variant.eu_stock THEN "EU" ELSE "UA">>), product.url>>

\* The rows written for the variants from the i-th on.
RECURSIVE SheetRows(_, _, _, _, _)
SheetRows(product, full_table, ref_price, variant_filter, i) ==
    IF i > Len(product.variants) THEN <<>>
    ELSE IF Written(full_table, ref_price, product.variants[i], variant_filter)
         THEN <<SheetRow(product, product.variants[i], ref_price)>>
              \o SheetRows(product, full_table, ref_price, variant_filter, i + 1)
    ELSE SheetRows(product, full_table, ref_price, variant_filter, i + 1)

\* What one line gave: the product, the rows written, the item skipped.
Line(ref_price, product, rows, skipped) ==
    [ref_price |-> ref_price, product |-> product, rows |-> rows, skipped |-> skipped]

LineProduct(line, full_table, ref_price, product) ==
    IF product = None THEN Line(ref_price, None, <<>>, None)
    ELSE Line(ref_price, product,
              SheetRows(product, full_table, ref_price, line[2], 1), None)

LineRef(line, page, full_table, ref) ==
    IF ref.raise THEN Line(None, None, <<>>, "error")
    ELSE IF ref.v = None THEN Line(None, None, <<>>, "no reference price")
    ELSE LineProduct(line, full_table, ref.v, parse_product(line[1], page))

\* The body of the loop of process_data on one line.
process_line(line, page, rate, full_table) ==
    LineRef(PadLine(line), page, full_table, LineRefPrice(PadLine(line), rate))

---------------------------------------------------------------------------
(* xlsx/xlsx_table_generator.py: XlsxTableGenerator.  The worksheet is the *)
(* function from the <<row, col>> places written so far to their cells.    *)

\* str.lower() on the type names of the model.
LowerSymbol ==
    [Brand |-> "brand", Name |-> "name", Variant |-> "variant", RPrice |-> "rprice",
     MPrice |-> "mprice", Region |-> "region", Info |-> "info", Error |-> "error",
     SaleFormula |-> "saleformula", Colour |-> "colour"]

Lower(s) == [k \in 1..Len(s) |-> IF s[k] \in DOMAIN LowerSymbol THEN LowerSymbol[s[k]] ELSE s[k]]

\* settings.get(key)
DictGet(settings, key) == IF key \in DOMAIN settings THEN settings[key] ELSE None

\* XlsxColumnSetting, with the fields the cells depend on; the colour is
\* the valid one that __post_init__ leaves.
XlsxColumnSetting(type, header) ==
    [kind |-> "XlsxColumnSetting", type |-> type, header |-> header,
     background_color_hex |-> Str(<<"#FFFFFF">>)]

\* processed_settings['type'] of XlsxColumnSetting.from_dict
ColumnType(settings) ==
    IF DictGet(settings, "type") # None THEN DictGet(settings, "type")
    ELSE Str(<<"Variant">>)

\* XlsxColumnSetting.from_dict
XlsxColumnSetting_from_dict(settings) ==
    XlsxColumnSetting(ColumnType(settings),
                      IF DictGet(settings, "header") # None THEN DictGet(settings, "header")
                      ELSE IF Truthy(ColumnType(settings)) THEN ColumnType(settings)
                      ELSE Str(<<"Something">>))

\* key.startswith("_")
StartsWithUnderscore(key) == Len(key.s) > 0 /\ key.s[1] = "_"

\* The list comprehension of _load_table_settings over settings.items().
RECURSIVE TableSettings(_)
TableSettings(items) ==
    IF Len(items) = 0 THEN <<>>
    ELSE IF StartsWithUnderscore(items[1].key) THEN TableSettings(Tail(items))
    ELSE <<XlsxColumnSetting_from_dict(items[1].column)>> \o TableSettings(Tail(items))

\* XlsxTableGenerator._load_table_settings
load_table_settings(cfg) ==
    IF "xlsx_table_settings" \notin DOMAIN cfg THEN Raise("ValueError")
    ELSE IF Len(cfg.xlsx_table_settings) = 0 THEN Raise("ValueError")
    ELSE Return(TableSettings(cfg.xlsx_table_settings))

CellData(value, format_dict, is_hyperlink, url) ==
    [value |-> value, format_dict |-> format_dict, is_hyperlink |-> is_hyperlink, url |-> url]

\* worksheet.write / worksheet.write_url at a place.
WriteCell(worksheet, row, col, cell_data) ==
    [place \in DOMAIN worksheet \cup {<<row, col>>} |->
        IF place = <<row, col>> THEN cell_data ELSE worksheet[place]]

\* XlsxTableGenerator._set_headers from column col_index on.
RECURSIVE SetHeaders(_, _, _)
SetHeaders(worksheet, table_settings, col_index) ==
    IF col_index >= Len(table_settings) THEN worksheet
    ELSE SetHeaders(WriteCell(worksheet, 0, col_index,
                              CellData(table_settings[col_index + 1].header, "header",
                                       FALSE, None)),
                    table_settings, col_index + 1)

\* The handler 'info' of _init_cell_type_mapping.
InfoItems(product, variant) ==
    (IF product.info # None THEN <<product.info>> ELSE <<>>)
        \o (IF variant # None /\ variant.info # None THEN <<variant.info>> ELSE <<>>)

\* The handlers of _init_cell_type_mapping that read the variant raise
\* AttributeError for no variant, and _get_cell_value then gives None.
VariantCellValue(handler, variant) ==
    IF variant = None THEN None
    ELSE IF handler = <<"mprice">> THEN variant.price
    ELSE IF handler = <<"variant">> THEN variant.title
    ELSE IF handler = <<"region">> THEN Str(<<IF variant.eu THEN "EU" ELSE "UA">>)
    ELSE IF variant.sale_params # None THEN variant.sale_params.price_formula
    ELSE Str(<<>>)

\* _get_cell_value for the lowered type.
CellValue(handler, product, variant, ref_price) ==
    IF handler = <<"brand">> THEN product.brand
    ELSE IF handler = <<"name">> THEN [kind |-> "tuple", items |-> <<product.name, product.url>>]
    ELSE IF handler = <<"error">> THEN Str(IF product.has_error THEN <<"ERROR">> ELSE <<>>)
    ELSE IF handler = <<"rprice">> THEN ref_price
    ELSE IF handler = <<"info">> THEN Str(JoinComma(InfoItems(product, variant)))
    ELSE IF handler \in {<<"mprice">>, <<"variant">>, <<"region">>, <<"saleformula">>}
         THEN VariantCellValue(handler, variant)
    ELSE None

\* XlsxTableGenerator._get_cell_value
get_cell_value(cell_type, product, variant, ref_price) ==
    CellValue(Lower(cell_type.s), product, variant, ref_price)

\* The background of _get_cell_format.
BgColor(setting, sale_params) ==
    IF sale_params # None THEN sale_params.price_background_color_hex
    ELSE setting.background_color_hex

\* XlsxTableGenerator._get_cell_format: darken_color raises ColorError for
\* no colour.
get_cell_format(setting, sale_params, is_striped) ==
    IF is_striped /\ BgColor(setting, sale_params) = None THEN Raise("ColorError")
    ELSE Return([bg_color |-> BgColor(setting, sale_params), darkened |-> is_striped])

\* XlsxTableGenerator._prepare_cell_data, given the format.
prepare_cell_data(value, setting, format_dict) ==
    IF Lower(setting.type.s) = <<"name">> /\ value.kind = "tuple" /\ Len(value.items) = 2
    THEN CellData(value.items[1], format_dict, TRUE, value.items[2])
    ELSE CellData(value, format_dict, FALSE, None)

\* What a method leaves of the generator: the worksheet, row_index, whether
\* it raised, and the rows it completed.
Generator(worksheet, row_index, raise, written) ==
    [worksheet |-> worksheet, row_index |-> row_index, raise |-> raise, written |-> written]

\* The loop of write_row from column col_index on, with the cells of
\* row_data that are None left out.
RECURSIVE WriteRowFrom_skips_none(_, _, _, _, _, _, _)
WriteRowFrom_skips_none(worksheet, table_settings, row_data, row_index, col_index, sale_params, is_striped) ==
    IF col_index >= Len(row_data) THEN Generator(worksheet, row_index + 1, FALSE, <<>>)
    ELSE IF get_cell_format(table_settings[col_index + 1], sale_params, is_striped).raise
         THEN Generator(worksheet, row_index, TRUE, <<>>)
    ELSE IF row_data[col_index + 1] = None
         THEN WriteRowFrom_skips_none(worksheet, table_settings, row_data, row_index,
                                      col_index + 1, sale_params, is_striped)
    ELSE WriteRowFrom_skips_none(
             WriteCell(worksheet, row_index, col_index,
                       prepare_cell_data(row_data[col_index + 1],
                                         table_settings[col_index + 1],
                                         get_cell_format(table_settings[col_index + 1],
                                                         sale_params, is_striped).v)),
             table_settings, row_data, row_index, col_index + 1, sale_params, is_striped)

\* The loop of write_row from column col_index on, without its
\* row_index += 1.
RECURSIVE WriteRowFrom_no_advance(_, _, _, _, _, _, _)
WriteRowFrom_no_advance(worksheet, table_settings, row_data, row_index, col_index, sale_params, is_striped) ==
    IF col_index >= Len(row_data) THEN Generator(worksheet, row_index, FALSE, <<>>)
    ELSE IF get_cell_format(table_settings[col_index + 1], sale_params, is_striped).raise
         THEN Generator(worksheet, row_index, TRUE, <<>>)
    ELSE WriteRowFrom_no_advance(
             WriteCell(worksheet, row_index, col_index,
                       prepare_cell_data(row_data[col_index + 1],
                                         table_settings[col_index + 1],
                                         get_cell_format(table_settings[col_index + 1],
                                                         sale_params, is_striped).v)),
             table_settings, row_data, row_index, col_index + 1, sale_params, is_striped)

\* The loop of write_row from column col_index on, and its row_index += 1.
RECURSIVE WriteRowFrom(_, _, _, _, _, _, _)
WriteRowFrom(worksheet, table_settings, row_data, row_index, col_index, sale_params, is_striped) ==
    IF col_index >= Len(row_data) THEN Generator(worksheet, row_index + 1, FALSE, <<>>)
    ELSE IF get_cell_format(table_settings[col_index + 1], sale_params, is_striped).raise
         THEN Generator(worksheet, row_index, TRUE, <<>>)
    ELSE WriteRowFrom(
             WriteCell(worksheet, row_index, col_index,
                       prepare_cell_data(row_data[col_index + 1],
                                         table_settings[col_index + 1],
                                         get_cell_format(table_settings[col_index + 1],
                                                         sale_params, is_striped).v)),
             table_settings, row_data, row_index, col_index + 1, sale_params, is_striped)

\* XlsxTableGenerator.write_row
write_row(self, worksheet, row_index, row_data, sale_params) ==
    WriteRowFrom(worksheet, self.table_settings, row_data, row_index, 0, sale_params,
                 self.striped_zebra /\ row_index % 2 # 0)

\* The row_data of _add_product_variant and _add_product_without_variants.
RowData(table_settings, product, variant, ref_price) ==
    [k \in 1..Len(table_settings) |->
        get_cell_value(table_settings[k].type, product, variant, ref_price)]

\* XlsxTableGenerator._add_product_variant: variant.title raises
\* AttributeError for a position that is None.
add_product_variant(self, worksheet, row_index, product, variant, ref_price) ==
    IF variant = None THEN Generator(worksheet, row_index, TRUE, <<>>)
    ELSE write_row(self, worksheet, row_index,
                   RowData(self.table_settings, product, variant, ref_price),
                   variant.sale_params)

\* XlsxTableGenerator._add_product_without_variants
add_product_without_variants(self, worksheet, row_index, product, ref_price) ==
    write_row(self, worksheet, row_index,
              RowData(self.table_settings, product, None, ref_price), None)

\* The row that a completed write_row wrote.
WrittenRow(g, product, variant, ref_price) ==
    IF g.raise THEN <<>>
    ELSE <<[call |-> "write_row", row_index |-> g.row_index - 1, product |-> product,
            variant |-> variant, ref_price |-> ref_price]>>

\* The loop of add_product over product.positions from the i-th on.
RECURSIVE AddVariants(_, _, _, _, _)
AddVariantsNext(self, g, written, product, ref_price, i) ==
    IF g.raise THEN Generator(g.worksheet, g.row_index, TRUE, written)
    ELSE AddVariants(self,
                     Generator(g.worksheet, g.row_index, FALSE,
                               written \o WrittenRow(g, product, product.positions[i],
                                                     ref_price)),
                     product, ref_price, i + 1)

AddVariants(self, g, product, ref_price, i) ==
    IF i > Len(product.positions) THEN g
    ELSE AddVariantsNext(self,
                         add_product_variant(self, g.worksheet, g.row_index, product,
                                             product.positions[i], ref_price),
                         g.written, product, ref_price, i)

\* The row of a product without positions, with the record of it.
WithoutVariants(g, product, ref_price) ==
    Generator(g.worksheet, g.row_index, g.raise, WrittenRow(g, product, None, ref_price))

\* XlsxTableGenerator.add_product: an exception becomes RuntimeError.
add_product(self, worksheet, row_index, product, ref_price) ==
    IF Len(product.positions) = 0
    THEN WithoutVariants(add_product_without_variants(self, worksheet, row_index, product,
                                                      ref_price),
                         product, ref_price)
    ELSE AddVariants(self, Generator(worksheet, row_index, FALSE, <<>>), product,
                     ref_price, 1)

---------------------------------------------------------------------------
(* utils/hex_tools.py: normalize_hex_color.  A str is here the sequence of *)
(* its characters; the functions return None or the str of a colour.       *)

HexDigits == <<"0", "1", "2", "3", "4", "5", "6", "7", "8", "9", "a", "b", "c", "d", "e", "f">>

\* c in '0123456789abcdef'
IsHexChar(c) == \E k \in 1..Len(HexDigits) : HexDigits[k] = c

\* str.lower() on the characters of the model.
AsciiLower ==
    ("A" :> "a") @@ ("B" :> "b") @@ ("C" :> "c") @@ ("D" :> "d") @@ ("E" :> "e") @@
    ("F" :> "f") @@ ("G" :> "g") @@ ("H" :> "h") @@ ("L" :> "l") @@ ("R" :> "r") @@
    ("S" :> "s") @@ ("U" :> "u")

StrLower(s) == [k \in 1..Len(s) |-> IF s[k] \in DOMAIN AsciiLower THEN AsciiLower[s[k]] ELSE s[k]]

\* re.sub(r'\s+', '', color)
RECURSIVE RemoveBlanks(_)
RemoveBlanks(s) ==
    IF Len(s) = 0 THEN <<>>
    ELSE IF IsBlank(s[1]) THEN RemoveBlanks(Tail(s))
    ELSE <<s[1]>> \o RemoveBlanks(Tail(s))

\* f"{n:02x}": two hexadecimal digits, more when n > 255.
RECURSIVE HexOf(_)
HexOf(n) == IF n < 16 THEN <<HexDigits[n + 1]>> ELSE HexOf(n \div 16) \o <<HexDigits[(n % 16) + 1]>>

Hex02(n) == IF n < 16 THEN <<"0">> \o HexOf(n) ELSE HexOf(n)

\* f"#{r:02x}{g:02x}{b:02x}"
HexColor(r, g, b) == Str(<<"#">> \o Hex02(r) \o Hex02(g) \o Hex02(b))

\* min(255, max(0, n))
Clamp255(n) == IF n < 0 THEN 0 ELSE IF n > 255 THEN 255 ELSE n

\* The entries of COLOR_NAMES that the model keeps.
COLOR_NAMES ==
    (<<"a", "q", "u", "a">> :> <<"#", "0", "0", "f", "f", "f", "f">>) @@
    (<<"b", "l", "u", "e">> :> <<"#", "0", "0", "0", "0", "f", "f">>) @@
    (<<"g", "o", "l", "d">> :> <<"#", "f", "f", "d", "7", "0", "0">>)

\* _normalize_color_name: COLOR_NAMES.get(color)
normalize_color_name(color) ==
    IF color \in DOMAIN COLOR_NAMES THEN Str(COLOR_NAMES[color]) ELSE None

\* color.lstrip('#')
RECURSIVE LStripHash(_)
LStripHash(s) == IF Len(s) > 0 /\ s[1] = "#" THEN LStripHash(Tail(s)) ELSE s

\* The branches of _normalize_hex_color on the str without its hashes.
HexFormat(color) ==
    IF Len(color) = 3 THEN Str(<<"#", color[1], color[1], color[2], color[2], color[3], color[3]>>)
    ELSE IF Len(color) = 6 THEN Str(<<"#">> \o color)
    ELSE IF Len(color) = 4 THEN Str(<<"#", color[1], color[1], color[2], color[2], color[3], color[3]>>)
    ELSE IF Len(color) = 8 THEN Str(<<"#">> \o SubSeq(color, 1, 6))
    ELSE None

\* _normalize_hex_color
normalize_hex_format(color) ==
    IF \E k \in 1..Len(LStripHash(color)) : ~IsHexChar(LStripHash(color)[k]) THEN None
    ELSE HexFormat(LStripHash(color))

\* The number of characters of s from place i on that satisfy \d.
RECURSIVE DigitRun(_, _)
DigitRun(s, i) ==
    IF i <= Len(s) /\ s[i] \in DOMAIN DecimalDigit THEN 1 + DigitRun(s, i + 1) ELSE 0

\* The number of characters of s from place i on that satisfy [\d.].
RECURSIVE DigitDotRun(_, _)
DigitDotRun(s, i) ==
    IF i <= Len(s) /\ (s[i] \in DOMAIN DecimalDigit \/ s[i] = ".")
    THEN 1 + DigitDotRun(s, i + 1) ELSE 0

\* s has the characters of p from place i on.
HasAt(s, i, p) == i + Len(p) - 1 <= Len(s) /\ SubSeq(s, i, i + Len(p) - 1) = p

\* (\d{1,3}) at place i, followed by the character next: the place after
\* next, or 0 when there is no match.
Digits3At(s, i, next) ==
    IF DigitRun(s, i) \in 1..3 /\ HasAt(s, i + DigitRun(s, i), <<next>>)
    THEN i + DigitRun(s, i) + 1 ELSE 0

\* int(x) of the group that ends right before the place j - 1.
GroupBefore(s, i, j) == DigitsToInt(SubSeq(s, i, j - 2))

\* (\d{1,3}),(\d{1,3}),(\d{1,3}) from place i on, closed by the character
\* last: <<r, g, b, the place after last>>, or <<>> when there is no match.
RgbGroupsB(s, i, j, k, last) ==
    IF Digits3At(s, k, last) = 0 THEN <<>>
    ELSE <<GroupBefore(s, i, j), GroupBefore(s, j, k),
           GroupBefore(s, k, Digits3At(s, k, last)), Digits3At(s, k, last)>>

RgbGroupsG(s, i, j, last) ==
    IF Digits3At(s, j, ",") = 0 THEN <<>> ELSE RgbGroupsB(s, i, j, Digits3At(s, j, ","), last)

RgbGroups(s, i, last) ==
    IF i > Len(s) \/ Digits3At(s, i, ",") = 0 THEN <<>>
    ELSE RgbGroupsG(s, i, Digits3At(s, i, ","), last)

\* re.match(r'rgb\((\d{1,3}),(\d{1,3}),(\d{1,3})\)', color)
MatchRgb(s) == IF HasAt(s, 1, <<"r", "g", "b", "(">>) THEN RgbGroups(s, 5, ")") ELSE <<>>

\* The end of the rgba pattern, ,[\d.]+\) , after the groups m.
RgbaAlpha(s, m) ==
    IF m # <<>> /\ DigitDotRun(s, m[4]) > 0 /\ HasAt(s, m[4] + DigitDotRun(s, m[4]), <<")">>)
    THEN m ELSE <<>>

\* re.match(r'rgba\((\d{1,3}),(\d{1,3}),(\d{1,3}),[\d.]+\)', color)
MatchRgba(s) ==
    IF HasAt(s, 1, <<"r", "g", "b", "a", "(">>) THEN RgbaAlpha(s, RgbGroups(s, 6, ",")) ELSE <<>>

\* re.match(r'^(\d{1,3}),(\d{1,3}),(\d{1,3})$', color): the third group
\* ends the str.
MatchBare(s) ==
    IF RgbGroups(s \o <<"$">>, 1, "$") # <<>> /\ RgbGroups(s \o <<"$">>, 1, "$")[4] = Len(s) + 2
    THEN RgbGroups(s \o <<"$">>, 1, "$") ELSE <<>>

\* The first of the three patterns that matches.
RgbMatch(s) ==
    IF MatchRgb(s) # <<>> THEN MatchRgb(s)
    ELSE IF MatchRgba(s) # <<>> THEN MatchRgba(s)
    ELSE MatchBare(s)

RgbColor(m) ==
    IF m = <<>> THEN None ELSE HexColor(Clamp255(m[1]), Clamp255(m[2]), Clamp255(m[3]))

\* _normalize_rgb_color
normalize_rgb_color(color) == RgbColor(RgbMatch(RemoveBlanks(color)))

\* The place after an optional % at place i.
AfterPercent(s, i) == IF HasAt(s, i, <<"%">>) THEN i + 1 ELSE i

\* int of the digits of s from place i on.
NumberAt(s, i) == DigitsToInt(SubSeq(s, i, i + DigitRun(s, i) - 1))

\* (\d+\.?\d*)%?\) at place k: the third group closes the pattern.  The
\* numbers of the model have no fraction, so a group is its run of digits.
HslGroupL(s, h, sat, k) ==
    IF DigitRun(s, k) > 0 /\ HasAt(s, AfterPercent(s, k + DigitRun(s, k)), <<")">>)
    THEN <<h, sat, NumberAt(s, k)>> ELSE <<>>

\* (\d+\.?\d*)%?, at place j
HslGroupS(s, h, j) ==
    IF DigitRun(s, j) > 0 /\ HasAt(s, AfterPercent(s, j + DigitRun(s, j)), <<",">>)
    THEN HslGroupL(s, h, NumberAt(s, j), AfterPercent(s, j + DigitRun(s, j)) + 1)
    ELSE <<>>

\* re.match(r'hsl\((\d+\.?\d*),(\d+\.?\d*)%?,(\d+\.?\d*)%?\)', color):
\* <<h, s, l>>, or <<>> when there is no match.
HslMatch(s) ==
    IF HasAt(s, 1, <<"h", "s", "l", "(">>) /\ DigitRun(s, 5) > 0 /\ HasAt(s, 5 + DigitRun(s, 5), <<",">>)
    THEN HslGroupS(s, NumberAt(s, 5), 5 + DigitRun(s, 5) + 1)
    ELSE <<>>

\* min(100, max(0, x))
Clamp100(x) == IF x < 0 THEN 0 ELSE IF x > 100 THEN 100 ELSE x

\* q of the conversion, in ten-thousandths, for s and l in percent.
HslQ(s, l) == IF l < 50 THEN l * (100 + s) ELSE 100 * l + 100 * s - l * s

\* p = 2 * l - q, in ten-thousandths.
HslP(s, l) == 200 * l - HslQ(s, l)

\* The branches of hue_to_rgb once t is within 0..360.
hue_to_rgb_wrapped(p, q, t) ==
    IF t < 60 THEN 60 * p + (q - p) * t
    ELSE IF t < 180 THEN 60 * q
    ELSE IF t < 240 THEN 60 * p + (q - p) * (240 - t)
    ELSE 60 * p

\* hue_to_rgb(p, q, t), in six-hundred-thousandths, for t in degrees
\* (t of the code times 360) and p, q in ten-thousandths.
hue_to_rgb(p, q, t) ==
    IF t < 0 THEN hue_to_rgb_wrapped(p, q, t + 360)
    ELSE IF t > 360 THEN hue_to_rgb_wrapped(p, q, t - 360)
    ELSE hue_to_rgb_wrapped(p, q, t)

\* int(max(0, min(255, round(hue_to_rgb(p, q, t) * 255))))
HslChannel(s, l, t) ==
    Clamp255(RoundHalfEven(255 * hue_to_rgb(HslP(s, l), HslQ(s, l), t), 600000))

\* The conversion of _normalize_hsl_color for h in degrees below 360 and
\* s, l in percent, in exact arithmetic.
HslColor(h, s, l) ==
    IF s = 0 THEN HexColor((l * 255) \div 100, (l * 255) \div 100, (l * 255) \div 100)
    ELSE HexColor(HslChannel(s, l, h + 120), HslChannel(s, l, h), HslChannel(s, l, h - 120))

HslOf(m) == IF m = <<>> THEN None ELSE HslColor(m[1] % 360, Clamp100(m[2]), Clamp100(m[3]))

\* _normalize_hsl_color
normalize_hsl_color(color) == HslOf(HslMatch(RemoveBlanks(StrLower(color))))

\* a or b or c or d of normalize_hex_color: the first that is not None (a
\* colour is never the empty str).
FirstColor(a, b, c, d) ==
    IF a # None THEN a ELSE IF b # None THEN b ELSE IF c # None THEN c ELSE d

NormalizeStr(color) ==
    FirstColor(normalize_color_name(color), normalize_rgb_color(color),
               normalize_hsl_color(color), normalize_hex_format(color))

\* normalize_hex_color: lru_cache hashes the argument before the body runs.
normalize_hex_color(color) ==
    IF color.kind = "list" THEN Raise("TypeError")
    ELSE IF color.kind # "str" THEN Return(None)
    ELSE Return(NormalizeStr(StrLower(Strip(color.s))))

\* SaleParams.__init__, lines 21-22: the two colours of a rule.
SaleColors(price_background_color_hex, price_font_color_hex) ==
    IF normalize_hex_color(price_background_color_hex).raise
    THEN normalize_hex_color(price_background_color_hex)
    ELSE IF normalize_hex_color(price_font_color_hex).raise
    THEN normalize_hex_color(price_font_color_hex)
    ELSE Return([kind |-> "SaleParams",
                 price_background_color_hex |-> normalize_hex_color(price_background_color_hex).v,
                 price_font_color_hex |-> normalize_hex_color(price_font_color_hex).v])

\* SaleParams.from_dict, lines 32-33: data.get of the two colours.
from_dict_colors(data) ==
    SaleColors(IF "price_background_color_hex" \in DOMAIN data
               THEN data.price_background_color_hex ELSE None,
               IF "price_font_color_hex" \in DOMAIN data
               THEN data.price_font_color_hex ELSE None)


---------------------------------------------------------------------------
(* The inputs of the model. *)

Titles == {None, Str(<<"A">>), Str(<<"A", "B">>)}

PriceStrings ==
    {<<>>, <<"a">>, <<"1", ".", "5">>, <<"SUP2">>, <<"0">>, <<"3">>, <<"1", "0", "0">>,
     <<"5", "0", "0">>, <<"6", "8", "0">>, <<"6", "8", "1">>, <<"8", "0", "0">>,
     <<"9", "0", "0">>}

PriceAttrs == {None} \cup {Str(s) : s \in PriceStrings}

VariantElements ==
    {[title |-> t, eu |-> e, data_price |-> p] :
        t \in Titles, e \in BOOLEAN, p \in PriceAttrs}

\* The formulas of Config.DEFAULT_CONFIG and formulas that fail or do nothing.
FormulaTwoThirds == <<"x", "*", "2", "/", "3">>
FormulaGift ==
    <<"x", "-", "100", " ", "if", " ", "x", ">", "680", " ", "else", " ", "x">>
Formulas ==
    {FormulaTwoThirds, FormulaGift,
     <<"x", "/", "0">>, <<"x", "+">>, <<"x">>, <<"x", "/", "1">>,
     <<"x", "-", "100">>, <<"x", ">", "680">>,
     <<"x", "/", "0", " ", "if", " ", "x", ">", "680", " ", "else", " ", "x">>}

InfoTexts == {None, Str(<<>>), Str(<<"1+1=3">>)}

\* apply_to is a dict of the configuration: it may lack a key.
ApplyTo == [ua : BOOLEAN, eu : BOOLEAN] \cup {[ua |-> TRUE], [eu |-> TRUE]}

Phrases == {<<"gift">>, <<"gift", " ", "pencil">>}

Rules ==
    {SaleParams(Str(ph), a, Str(f), i) :
        ph \in {<<"gift">>}, a \in ApplyTo, f \in Formulas, i \in InfoTexts}

\* The entries of sale_list: dicts of the configuration file.  info_text
\* is optional there (SaleParams.from_dict reads it with get).
RuleDict(text_for_search, apply_to, price_formula) ==
    [text_for_search |-> Str(text_for_search), apply_to |-> apply_to,
     price_formula |-> Str(price_formula)]

WithInfo(sale_item, info_text) == sale_item @@ [info_text |-> info_text]

UaOnly == [ua |-> TRUE, eu |-> FALSE]
Both == [ua |-> TRUE, eu |-> TRUE]

RuleGift == WithInfo(RuleDict(<<"gift">>, UaOnly, FormulaTwoThirds), Str(<<"1+1=3">>))
RulePencil == WithInfo(RuleDict(<<"pencil">>, Both, FormulaGift), None)
RuleBroken == WithInfo(RuleDict(<<"gift">>, Both, <<"x", "/", "0">>), Str(<<"1+1=3">>))
RuleLazy ==
    WithInfo(RuleDict(<<"gift", " ", "pencil">>, Both,
                      <<"x", "/", "0", " ", "if", " ", "x", ">", "680", " ", "else", " ", "x">>),
             None)
RuleNoInfo == RuleDict(<<"pencil">>, Both, <<"x", "-", "100">>)

SaleLists ==
    {<<>>, <<RuleGift, RulePencil>>, <<RulePencil, RuleGift>>, <<RuleBroken>>,
     <<RuleLazy, RuleGift>>, <<RuleGift, RuleNoInfo>>, <<RuleNoInfo, RuleGift>>}

Configs == {[sale_list |-> l] : l \in SaleLists}

\* The text of the attention link of a page.
PromoTexts ==
    {<<>>, <<" ">>, <<" ", "gift", " ">>, <<"gift", " ", "pencil">>,
     <<"a", " ", "pencil", " ", "gift">>, <<"sale">>}

Messages ==
    {None, [attention |-> None]} \cup {[attention |-> Str(t)] : t \in PromoTexts}

MaxVariants == 2

\* The variant elements of the pages: with and without a usable price.
PageElements ==
    {[title |-> Str(<<"A">>), eu |-> e, data_price |-> p] :
        e \in BOOLEAN,
        p \in {None, Str(<<"a">>), Str(<<"5", "0", "0">>), Str(<<"9", "0", "0">>)}}

RECURSIVE SeqsUpTo(_, _)
SeqsUpTo(S, n) ==
    IF n = 0 THEN {<<>>}
    ELSE SeqsUpTo(S, n - 1)
         \cup {Append(q, e) : q \in {r \in SeqsUpTo(S, n - 1) : Len(r) = n - 1}, e \in S}

BuyBlocks == {None} \cup {[variants |-> q] : q \in SeqsUpTo(PageElements, MaxVariants)}

Tags ==
    {[name_tag |-> None, brand_tag |-> None],
     [name_tag |-> Str(<<" ", "Lipstick", " ">>), brand_tag |-> Str(<<"Bourjois">>)],
     [name_tag |-> Str(<<"Lipstick">>), brand_tag |-> Str(<<" ">>)]}

ProductItems ==
    {[name_tag |-> t.name_tag, brand_tag |-> t.brand_tag, message |-> m, buy |-> b] :
        t \in Tags, m \in Messages, b \in BuyBlocks}

Pages ==
    {[fetch |-> f, product_item |-> None] : f \in {"ok", "ConnectionError", "HTTPError"}}
    \cup {[fetch |-> "ok", product_item |-> it] : it \in ProductItems}

Urls == {Str(<<"https://site/product/1">>)}

\* The exchange rates of the model: 41.5.
UsdRates == {Num(83, 2, "float")}

\* The rows of the input file: url; title filter; USD price; local price.
InputRow(title_filter, usd, local) ==
    <<Str(<<"https://site/product/1">>), Str(title_filter), Str(usd), Str(local)>>

InputRows ==
    {InputRow(f, <<>>, p) :
        f \in {<<>>, <<"B">>}, p \in {<<"5", "0", "0">>, <<"9", "0", "1">>}}
    \cup {InputRow(<<>>, <<"1", "2", ",", "5">>, <<"5", "0", "0">>),
          InputRow(<<>>, <<"a">>, <<"5", "0", "0">>),
          InputRow(<<>>, <<>>, <<"a">>),
          InputRow(<<>>, <<>>, <<>>),
          <<Str(<<"https://site/product/1">>)>>}

Element(title, eu, data_price) == [title |-> Str(title), eu |-> eu, data_price |-> data_price]

Item(message, buy) ==
    [name_tag |-> Str(<<"Lipstick">>), brand_tag |-> Str(<<"Bourjois">>),
     message |-> message, buy |-> buy]

\* The pages of a run: one that fails, one without a product, and products
\* with and without a promotion, a missing price, a block of variants.
RunPages ==
    {[fetch |-> "ConnectionError", product_item |-> None],
     [fetch |-> "ok", product_item |-> None],
     [fetch |-> "ok", product_item |-> Item(None, None)],
     [fetch |-> "ok", product_item |->
        Item(None, [variants |-> <<Element(<<"A">>, FALSE, Str(<<"5", "0", "0">>)),
                                   Element(<<"A", " ", "B">>, TRUE, Str(<<"9", "0", "0">>))>>])],
     [fetch |-> "ok", product_item |->
        Item([attention |-> Str(<<"gift">>)],
             [variants |-> <<Element(<<"A">>, FALSE, Str(<<"9", "0", "0">>)),
                             Element(<<"A", " ", "B">>, TRUE, Str(<<"5", "0", "0">>))>>])],
     [fetch |-> "ok", product_item |->
        Item([attention |-> Str(<<"pencil">>)],
             [variants |-> <<Element(<<"A">>, FALSE, Str(<<"5", "0", "0">>))>>])],
     [fetch |-> "ok", product_item |->
        Item(None, [variants |-> <<Element(<<"A">>, FALSE, None),
                                   Element(<<"A", " ", "B">>, FALSE, Str(<<"5", "0", "0">>))>>])]}

\* The sale lists of the runs: none, the two rules, and a rule without
\* info_text, which _check_sale_status reads with sale_item['info_text'].
RunConfigs ==
    {[sale_list |-> l] :
        l \in {<<>>, <<RuleGift, RulePencil>>, <<RuleDict(<<"gift">>, Both, FormulaTwoThirds)>>}}

MaxRows == 2

\* The run variables of a state that is no run of process_product_list.
NoRun ==
    /\ pc = "none"
    /\ files = None
    /\ usd_rate = None
    /\ nrows = 0
    /\ cur = None
    /\ sale_products = <<>>
    /\ regular_products = <<>>
    /\ error_products = <<>>
    /\ sheet = <<>>
    /\ log = <<>>
    /\ heap = None
    /\ threads = None

---------------------------------------------------------------------------
(* SpecVariant: Product._parse_variant on one element under one rule. *)

InitVariant ==
    /\ NoRun
    /\ config = [sale_list |-> <<>>]
    /\ call \in {[fn |-> "_parse_variant", variant |-> v, sale_params |-> sp] :
                    v \in VariantElements, sp \in {None} \cup Rules}
    /\ ret = Pending

ParseVariantCall ==
    /\ call.fn = "_parse_variant"
    /\ ret = Pending
    /\ ret' = parse_variant(call.variant, call.sale_params)
    /\ UNCHANGED <<config, call, run>>

NextVariant == ParseVariantCall

SpecVariant == InitVariant /\ [][NextVariant]_vars

---------------------------------------------------------------------------
(* SpecExtract: Product.from_url on one page under one configuration. *)

InitExtract ==
    /\ NoRun
    /\ config \in Configs
    /\ call \in {[fn |-> "from_url", url |-> u, page |-> pg] : u \in Urls, pg \in Pages}
    /\ ret = Pending

FromUrlCall ==
    /\ call.fn = "from_url"
    /\ ret = Pending
    /\ ret' = from_url(call.url, call.page, config.sale_list)
    /\ UNCHANGED <<config, call, run>>

NextExtract == FromUrlCall

SpecExtract == InitExtract /\ [][NextExtract]_vars

---------------------------------------------------------------------------
(* Spec: a run of make_xlsx.process_product_list.  The rows of the input   *)
(* file and the pages of the site are met one at a time.                   *)

Init ==
    /\ config \in RunConfigs
    /\ call = [fn |-> "process_product_list"]
    /\ ret = Pending
    /\ pc = "load_input_data"
    /\ files \in [input : BOOLEAN, output : {"absent", "old"}]
    /\ usd_rate = None
    /\ nrows = 0
    /\ cur = None
    /\ sale_products = <<>>
    /\ regular_products = <<>>
    /\ error_products = <<>>
    /\ sheet = <<>>
    /\ log = <<>>
    /\ heap = None
    /\ threads = None

\* The except of process_product_list: the exception is raised again.
Reraise == pc' = "raised" /\ ret' = Raise("Exception")

\* load_input_data: FileNotFoundError when there is no input file.
LoadInput ==
    /\ pc = "load_input_data"
    /\ IF files.input THEN pc' = "get_usd" /\ ret' = ret ELSE Reraise
    /\ UNCHANGED <<heap, threads, config, call, files, usd_rate, nrows, cur, sale_products,
                   regular_products, error_products, sheet, log>>

\* get_usd whose failure leaves the run going, at the rate 1.
GetUsd_goes_on ==
    /\ pc = "get_usd"
    /\ \/ \E rate \in UsdRates :
            /\ usd_rate' = rate
            /\ log' = Append(log, [call |-> "get_usd", raised |-> FALSE])
       \/ /\ usd_rate' = Num(1, 1, "float")
          /\ log' = Append(log, [call |-> "get_usd", raised |-> TRUE])
    /\ pc' = "initialize_workbook"
    /\ ret' = ret
    /\ UNCHANGED <<heap, threads, config, call, files, nrows, cur, sale_products,
                   regular_products, error_products, sheet>>

\* get_usd called after initialize_workbook has removed the old output.
GetUsd_after_initialize ==
    /\ pc = "get_usd"
    /\ files' = [files EXCEPT !.output = "absent"]
    /\ \/ \E rate \in UsdRates :
            /\ usd_rate' = rate /\ pc' = "initialize_workbook" /\ ret' = ret
            /\ log' = Append(log, [call |-> "get_usd", raised |-> FALSE])
       \/ /\ usd_rate' = usd_rate /\ Reraise
          /\ log' = Append(log, [call |-> "get_usd", raised |-> TRUE])
    /\ UNCHANGED <<heap, threads, config, call, nrows, cur, sale_products,
                   regular_products, error_products, sheet>>

\* get_usd: the rate, or ValueError.
GetUsd ==
    /\ pc = "get_usd"
    /\ \/ \E rate \in UsdRates :
            /\ usd_rate' = rate /\ pc' = "initialize_workbook" /\ ret' = ret
            /\ log' = Append(log, [call |-> "get_usd", raised |-> FALSE])
       \/ /\ usd_rate' = usd_rate /\ Reraise
          /\ log' = Append(log, [call |-> "get_usd", raised |-> TRUE])
    /\ UNCHANGED <<heap, threads, config, call, files, nrows, cur, sale_products,
                   regular_products, error_products, sheet>>

\* initialize_workbook: an old output file is removed; the new one comes
\* to disk when the workbook is closed.
InitializeWorkbook ==
    /\ pc = "initialize_workbook"
    /\ files' = [files EXCEPT !.output = "absent"]
    /\ pc' = "loop"
    /\ UNCHANGED <<heap, threads, config, call, ret, usd_rate, nrows, cur, sale_products,
                   regular_products, error_products, sheet, log>>

\* Product._fetch_product_page: the calls it makes that take time or reach
\* the site.
fetch_product_page == <<"requests.get">>

\* The effect of one iteration on the lists and on the run.
Iterate(row, page, it) ==
    /\ cur' = [row |-> row, page |-> page, it |-> it]
    /\ nrows' = nrows + 1
    /\ sale_products' =
           IF it.outcome = "sale" THEN Append(sale_products, it.processed_rows)
           ELSE sale_products
    /\ regular_products' =
           IF it.outcome = "regular" THEN Append(regular_products, it.processed_rows)
           ELSE regular_products
    /\ error_products' =
           IF it.outcome = "error" THEN Append(error_products, it.processed_rows)
           ELSE error_products
    /\ log' = Append(log, [call |-> "row", from_url |-> it.product # None,
                            calls |-> IF it.product # None THEN fetch_product_page
                                      ELSE <<>>,
                            target_variant |-> TargetVariant(row), it |-> it])
    /\ IF it.outcome = "raised" THEN Reraise ELSE pc' = pc /\ ret' = ret

\* One iteration of the loop over data_rows.
ProcessRow ==
    /\ pc = "loop"
    /\ nrows < MaxRows
    /\ \E row \in InputRows, page \in RunPages :
           Iterate(row, page, LoopBody(row, page, usd_rate, config.sale_list))
    /\ UNCHANGED <<heap, threads, config, call, files, usd_rate, sheet>>

\* After the loop: the three lists are written, sale, regular, error, and
\* the workbook is closed.  For no products the function returns with the
\* workbook left open: no file comes to disk, unless the library closes
\* the abandoned workbook itself (xlsxwriter versions with a destructor).
Finish ==
    /\ pc = "loop"
    /\ IF Len(regular_products) + Len(sale_products) + Len(error_products) > 0
       THEN /\ sheet' = WriteAll(sale_products, regular_products, error_products, 1)
            /\ files' = [files EXCEPT !.output = "written"]
       ELSE /\ sheet' = sheet
            /\ files' \in {files, [files EXCEPT !.output = "written"]}
    /\ pc' = "returned"
    /\ ret' = Return(None)
    /\ UNCHANGED <<heap, threads, config, call, usd_rate, nrows, cur, sale_products,
                   regular_products, error_products, log>>

Next == LoadInput \/ GetUsd \/ InitializeWorkbook \/ ProcessRow \/ Finish

Spec == Init /\ [][Next]_vars

---------------------------------------------------------------------------
(* SpecSheet: ExcelProcessor.process_data on one line and one page.        *)

InitSheet ==
    /\ NoRun
    /\ config = [sale_list |-> <<>>]
    /\ call \in {[fn |-> "process_data", line |-> l, page |-> pg, usd_rate |-> r,
                  full_table |-> ft] :
                    l \in InputRows, pg \in Pages, r \in UsdRates, ft \in BOOLEAN}
    /\ ret = Pending

\* MakeupParser.parse_product up to its request: the calls it makes that
\* take time or reach the site.
parse_product_calls == <<"time.sleep", "requests.get">>

ProcessLine ==
    /\ call.fn = "process_data"
    /\ ret = Pending
    /\ ret' = process_line(call.line, call.page, call.usd_rate, call.full_table)
    /\ log' = IF process_line(call.line, call.page, call.usd_rate,
                              call.full_table).ref_price # None
              THEN <<[call |-> "row", from_url |-> TRUE, calls |-> parse_product_calls]>>
              ELSE <<>>
    /\ UNCHANGED <<heap, threads, config, call, pc, files, usd_rate, nrows, cur, sale_products,
                   regular_products, error_products, sheet>>

NextSheet == ProcessLine

SpecSheet == InitSheet /\ [][NextSheet]_vars

---------------------------------------------------------------------------
(* SpecRef: the reference price of one input row, as parse_ref_price and   *)
(* as ExcelProcessor.process_data compute it.                              *)

\* The texts of a USD column with the numbers n / d they spell, and other
\* texts of that column.
UsdValues ==
    {[text |-> <<"1", "0">>, n |-> 10, d |-> 1],
     [text |-> <<"1", "2", ",", "5">>, n |-> 25, d |-> 2],
     [text |-> <<"3">>, n |-> 3, d |-> 1],
     [text |-> <<"0", ".", "5">>, n |-> 1, d |-> 2],
     [text |-> <<"1">>, n |-> 1, d |-> 1]}

UsdTexts == {u.text : u \in UsdValues} \cup {<<>>, <<"a">>, <<"1", ",", ",", "5">>}

\* The texts of a local-currency column with the integers they spell, and
\* other texts of that column.
LocalValues ==
    {[text |-> <<"5", "0", "0">>, n |-> 500], [text |-> <<"9", "0", "1">>, n |-> 901]}

LocalTexts == {l.text : l \in LocalValues} \cup {<<>>, <<"a">>, <<"1", "2", ".", "5">>}

\* Rows of four, three, two and one columns.
RefRows ==
    {InputRow(<<>>, u, l) : u \in UsdTexts, l \in LocalTexts}
    \cup {<<Str(<<"https://site/product/1">>), Str(<<>>), Str(u)>> : u \in UsdTexts}
    \cup {<<Str(<<"https://site/product/1">>), Str(<<>>)>>,
          <<Str(<<"https://site/product/1">>)>>}

\* The exchange rates 41.5 and 40.25.
RefRates == {Num(83, 2, "float"), Num(161, 4, "float")}

InitRef ==
    /\ NoRun
    /\ config = [sale_list |-> <<>>]
    /\ call \in {[fn |-> f, row |-> r, usd_rate |-> u] :
                    f \in {"parse_ref_price", "process_data"}, r \in RefRows, u \in RefRates}
    /\ ret = Pending

ParseRefPriceCall ==
    /\ call.fn = "parse_ref_price"
    /\ ret = Pending
    /\ ret' = parse_ref_price(call.row, call.usd_rate)
    /\ UNCHANGED <<config, call, run>>

\* The reference price that process_data takes for a line.
LineRefPriceCall ==
    /\ call.fn = "process_data"
    /\ ret = Pending
    /\ ret' = LineRefPrice(PadLine(call.row), call.usd_rate)
    /\ UNCHANGED <<config, call, run>>

NextRef == ParseRefPriceCall \/ LineRefPriceCall

SpecRef == InitRef /\ [][NextRef]_vars

---------------------------------------------------------------------------
(* SpecConfig: Config._load_config on one configuration file, and then    *)
(* Product.from_url under the configuration it gave.                      *)

\* The sale_list of Config.DEFAULT_CONFIG, its texts shortened.
DEFAULT_CONFIG ==
    [sale_list |->
        <<WithInfo(RuleDict(<<"gift">>, UaOnly, FormulaTwoThirds), Str(<<"1+1=3">>)),
          WithInfo(RuleDict(<<"pencil">>, UaOnly, FormulaGift), Str(<<"pencil">>))>>]

\* A dict without keys.
EmptyDict == [k \in {} |-> None]

\* The configuration file: absent, no JSON, or a JSON object.  data holds
\* its sale_list if it has one; other_keys tells whether it holds all the
\* other keys of DEFAULT_CONFIG.
ConfigFile(exists, json, other_keys, data) ==
    [exists |-> exists, json |-> json, other_keys |-> other_keys, data |-> data]

\* {**DEFAULT_CONFIG, **existing_config}
Merged(existing_config) == existing_config @@ DEFAULT_CONFIG

\* Config._load_config: the defaults for no file, ValueError for a file
\* that is no JSON, else the file's keys over the defaults.
load_config(file) ==
    IF ~file.exists THEN Return(DEFAULT_CONFIG)
    ELSE IF ~file.json THEN Raise("ValueError")
    ELSE Return(Merged(file.data))

\* The file after the _save_config of _load_config, when the save succeeds.
SavedFile(file) ==
    IF ~file.exists THEN ConfigFile(TRUE, TRUE, TRUE, DEFAULT_CONFIG)
    ELSE IF ~file.json THEN file
    ELSE IF file.other_keys /\ "sale_list" \in DOMAIN file.data THEN file
    ELSE ConfigFile(TRUE, TRUE, TRUE, Merged(file.data))

MaxRules == 2

\* Entries of a sale_list in a file: well-formed ones, one without each of
\* the required keys, and formulas that are no expression.
FileEntries ==
    {RuleGift, RuleNoInfo, RuleBroken,
     [apply_to |-> UaOnly, price_formula |-> Str(FormulaTwoThirds),
      info_text |-> Str(<<"1+1=3">>)],
     [text_for_search |-> Str(<<"gift">>), price_formula |-> Str(FormulaTwoThirds),
      info_text |-> Str(<<"1+1=3">>)],
     [text_for_search |-> Str(<<"gift">>), apply_to |-> UaOnly,
      info_text |-> Str(<<"1+1=3">>)],
     WithInfo(RuleDict(<<"gift">>, UaOnly, <<"x", "+">>), Str(<<"1+1=3">>))}

ConfigFiles ==
    {ConfigFile(FALSE, FALSE, FALSE, EmptyDict), ConfigFile(TRUE, FALSE, FALSE, EmptyDict)}
    \cup {ConfigFile(TRUE, TRUE, o, EmptyDict) : o \in BOOLEAN}
    \cup {ConfigFile(TRUE, TRUE, o, [sale_list |-> l]) :
              o \in BOOLEAN, l \in SeqsUpTo(FileEntries, MaxRules)}

InitConfig ==
    /\ config = None
    /\ call = [fn |-> "_load_config"]
    /\ ret = Pending
    /\ pc = "none"
    /\ files \in {[config |-> f] : f \in ConfigFiles}
    /\ usd_rate = None
    /\ nrows = 0
    /\ cur = None
    /\ sale_products = <<>>
    /\ regular_products = <<>>
    /\ error_products = <<>>
    /\ sheet = <<>>
    /\ log = <<>>
    /\ heap = None
    /\ threads = None

\* Config(): _load_config, with its _save_config succeeding or failing.
LoadConfig ==
    /\ call.fn = "_load_config"
    /\ ret = Pending
    /\ ret' = load_config(files.config)
    /\ config' = IF load_config(files.config).raise THEN config
                 ELSE load_config(files.config).v
    /\ \E written \in BOOLEAN :
           files' = [config |-> IF written THEN SavedFile(files.config) ELSE files.config]
    /\ UNCHANGED <<heap, threads, call, pc, usd_rate, nrows, cur, sale_products, regular_products,
                   error_products, sheet, log>>

\* Product.from_url for a page under the loaded configuration.
FromUrlLoaded ==
    /\ call.fn = "_load_config"
    /\ ret # Pending
    /\ ~ret.raise
    /\ \E u \in Urls, pg \in RunPages :
           /\ call' = [fn |-> "from_url", url |-> u, page |-> pg]
           /\ ret' = from_url(u, pg, config.sale_list)
    /\ UNCHANGED <<config, run>>

NextConfig == LoadConfig \/ FromUrlLoaded

SpecConfig == InitConfig /\ [][NextConfig]_vars

---------------------------------------------------------------------------
(* SpecTable: an XlsxTableGenerator is made from a configuration and      *)
(* products are added to it.  cur is the generator, sheet its worksheet.   *)

MaxColumns == 2

\* The column dicts of xlsx_table_settings: with and without a type, with
\* and without a header, of a type that has no handler.
TableColumns ==
    {[type |-> Str(<<"Name">>), header |-> Str(<<"Product">>)],
     [type |-> Str(<<"mprice">>)],
     [header |-> Str(<<"Title">>)],
     [type |-> Str(<<"Colour">>), header |-> None],
     [type |-> Str(<<"Region">>), header |-> Str(<<"Region">>)]}

\* The values of xlsx_table_settings: a column dict, or a comment.
TableValues == TableColumns \cup {Str(<<"comment">>)}

Decimal == <<"1", "2", "3", "4", "5", "6", "7", "8", "9">>

\* settings.items(): the keys are "_comment<i>" for a comment and
\* "column_<i>" for a column dict.
TableItems(values) ==
    [i \in 1..Len(values) |->
        [key |-> Str(IF values[i] \in TableColumns THEN <<"column", "_", Decimal[i]>>
                     ELSE <<"_", "comment", Decimal[i]>>),
         column |-> values[i]]]

TableConfigs ==
    {[striped_zebra |-> z] : z \in BOOLEAN}
    \cup {[xlsx_table_settings |-> TableItems(q), striped_zebra |-> z] :
              q \in SeqsUpTo(TableValues, MaxColumns), z \in BOOLEAN}

\* The rule of a variant on sale, with and without a background colour.
TableSale(price_background_color_hex) ==
    [kind |-> "SaleParams", price_formula |-> Str(FormulaTwoThirds),
     price_background_color_hex |-> price_background_color_hex]

\* The products added: one in error, one with a variant, one with two
\* variants on sale, one with a position that is None.
TableProducts ==
    {Product(Str(<<"Unknown">>), Str(<<"Unrecognized">>), Str(<<"https://site/product/1">>),
             <<>>, Str(<<"Request error!">>), None, TRUE),
     Product(Str(<<"Lipstick">>), Str(<<"Bourjois">>), Str(<<"https://site/product/1">>),
             <<Variant(Str(<<"A">>), FALSE, PyInt(500), None, Str(<<>>))>>,
             None, None, FALSE),
     Product(Str(<<"Lipstick">>), Str(<<"Bourjois">>), Str(<<"https://site/product/1">>),
             <<Variant(Str(<<"A">>), FALSE, PyInt(600), TableSale(Str(<<"#45F200">>)),
                       Str(<<"1+1=3">>)),
               Variant(Str(<<"B">>), TRUE, PyInt(500), TableSale(None), Str(<<>>))>>,
             None, None, FALSE),
     Product(Str(<<"Lipstick">>), Str(<<"Bourjois">>), Str(<<"https://site/product/1">>),
             <<Variant(Str(<<"A">>), FALSE, PyInt(500), None, Str(<<>>)), None>>,
             None, None, FALSE)}

InitTable ==
    /\ config \in TableConfigs
    /\ call = [fn |-> "XlsxTableGenerator"]
    /\ ret = Pending
    /\ pc = "none"
    /\ files = None
    /\ usd_rate = None
    /\ nrows = 0
    /\ cur = None
    /\ sale_products = <<>>
    /\ regular_products = <<>>
    /\ error_products = <<>>
    /\ sheet = <<>>
    /\ log = <<>>
    /\ heap = None
    /\ threads = None

\* XlsxTableGenerator.__init__: row_index = 1, the settings, the headers.
NewGenerator ==
    /\ call.fn = "XlsxTableGenerator"
    /\ ret = Pending
    /\ IF load_table_settings(config).raise
       THEN /\ ret' = load_table_settings(config)
            /\ UNCHANGED <<cur, sheet>>
       ELSE /\ ret' = Return(None)
            /\ cur' = [table_settings |-> load_table_settings(config).v, row_index |-> 1,
                       striped_zebra |-> config.striped_zebra]
            /\ sheet' = SetHeaders(<<>>, load_table_settings(config).v, 0)
    /\ UNCHANGED <<heap, threads, config, call, pc, files, usd_rate, nrows, sale_products,
                   regular_products, error_products, log>>

\* The generator after a call of add_product.
Added(g) ==
    /\ cur' = [cur EXCEPT !.row_index = g.row_index]
    /\ sheet' = g.worksheet
    /\ log' = log \o g.written
    /\ ret' = IF g.raise THEN Raise("RuntimeError") ELSE Return(None)

\* XlsxTableGenerator.add_product
AddProduct ==
    /\ cur # None
    /\ nrows < MaxRows
    /\ nrows' = nrows + 1
    /\ \E product \in TableProducts, ref_price \in {PyInt(500)} :
           /\ call' = [fn |-> "add_product", product |-> product, ref_price |-> ref_price]
           /\ Added(add_product(cur, sheet, cur.row_index, product, ref_price))
    /\ UNCHANGED <<heap, threads, config, pc, files, usd_rate, sale_products, regular_products,
                   error_products>>

NextTable == NewGenerator \/ AddProduct

SpecTable == InitTable /\ [][NextTable]_vars

---------------------------------------------------------------------------
(* SpecThreads: threads that call get_logger() (singletons/logger.py) or   *)
(* ConsoleSingleton() (singletons/console.py).  A step is one statement,   *)
(* or one read or write of a class attribute; the interpreter may switch   *)
(* threads between any two of them.  heap holds _instance of each class,   *)
(* the holder of LoggerSingleton._lock, the objects made so far (an object *)
(* is named by its place in heap.objects) and the number of runs of        *)
(* _configure_logger.  None is 0 among the objects and the lock holders.   *)

MaxThreads == 2

Threads == 1..MaxThreads

\* A thread: the call it makes, where it stands in it, the object it got.
Thread(fn, at, instance) == [fn |-> fn, at |-> at, instance |-> instance]

InitThreads ==
    /\ config = [sale_list |-> <<>>]
    /\ call = [fn |-> "threads"]
    /\ ret = Pending
    /\ pc = "none"
    /\ files = None
    /\ usd_rate = None
    /\ nrows = 0
    /\ cur = None
    /\ sale_products = <<>>
    /\ regular_products = <<>>
    /\ error_products = <<>>
    /\ sheet = <<>>
    /\ log = <<>>
    /\ heap = [LoggerSingleton |-> [_instance |-> 0, _lock |-> 0],
               ConsoleSingleton |-> [_instance |-> 0],
               objects |-> <<>>, configure_logger |-> 0]
    /\ threads \in [Threads -> {Thread(fn, "call", 0) :
                                    fn \in {"get_logger", "ConsoleSingleton"}}]

\* The thread moves on, with the object it holds.
Goes(t, at, instance) ==
    threads' = [threads EXCEPT ![t] = Thread(threads[t].fn, at, instance)]

\* logger.py:11  if cls._instance is None
LoggerCheck(t) ==
    /\ threads[t].fn = "get_logger"
    /\ threads[t].at = "call"
    /\ Goes(t, IF heap.LoggerSingleton._instance = 0 THEN "with" ELSE "return", 0)
    /\ UNCHANGED heap

\* logger.py:12  with cls._lock
LoggerAcquire(t) ==
    /\ threads[t].at = "with"
    /\ heap.LoggerSingleton._lock = 0
    /\ heap' = [heap EXCEPT !.LoggerSingleton._lock = t]
    /\ Goes(t, "locked", 0)

\* logger.py:13  if cls._instance is None, under the lock
LoggerCheckLocked(t) ==
    /\ threads[t].at = "locked"
    /\ Goes(t, IF heap.LoggerSingleton._instance = 0 THEN "new" ELSE "release", 0)
    /\ UNCHANGED heap

\* logger.py:14  cls._instance = super().__new__(cls)
LoggerNew(t) ==
    /\ threads[t].at = "new"
    /\ heap' = [heap EXCEPT
                    !.objects = Append(@, [class |-> "LoggerSingleton", logger |-> FALSE]),
                    !.LoggerSingleton._instance = Len(heap.objects) + 1]
    /\ Goes(t, "configure", 0)

\* logger.py:15  cls._instance._configure_logger(), which ends with
\* self.logger = logger
LoggerConfigure(t) ==
    /\ threads[t].at = "configure"
    /\ heap' = [heap EXCEPT
                    !.objects[heap.LoggerSingleton._instance].logger = TRUE,
                    !.configure_logger = @ + 1]
    /\ Goes(t, "release", 0)

\* The end of the with block: the lock is released.
LoggerRelease(t) ==
    /\ threads[t].at = "release"
    /\ heap' = [heap EXCEPT !.LoggerSingleton._lock = 0]
    /\ Goes(t, "return", 0)

\* logger.py:16  return cls._instance
LoggerReturn(t) ==
    /\ threads[t].fn = "get_logger"
    /\ threads[t].at = "return"
    /\ Goes(t, "get_logger", heap.LoggerSingleton._instance)
    /\ UNCHANGED heap

\* logger.py:37, 42  return self.logger: AttributeError for an object that
\* has no logger yet.
GetLogger(t) ==
    /\ threads[t].at = "get_logger"
    /\ Goes(t, IF heap.objects[threads[t].instance].logger THEN "done" ELSE "raised",
            threads[t].instance)
    /\ UNCHANGED heap

\* console.py:10  if cls._instance is None
ConsoleCheck(t) ==
    /\ threads[t].fn = "ConsoleSingleton"
    /\ threads[t].at = "call"
    /\ Goes(t, IF heap.ConsoleSingleton._instance = 0 THEN "construct" ELSE "return",
            0)
    /\ UNCHANGED heap

\* console.py:11  super().__call__(*args, **kwargs): the object is made
ConsoleConstruct(t) ==
    /\ threads[t].at = "construct"
    /\ heap' = [heap EXCEPT !.objects = Append(@, [class |-> "ConsoleSingleton"])]
    /\ Goes(t, "assign", Len(heap.objects) + 1)

\* console.py:11  cls._instance = the object made
ConsoleAssign(t) ==
    /\ threads[t].at = "assign"
    /\ heap' = [heap EXCEPT !.ConsoleSingleton._instance = threads[t].instance]
    /\ Goes(t, "return", 0)

\* console.py:12  return cls._instance
ConsoleReturn(t) ==
    /\ threads[t].fn = "ConsoleSingleton"
    /\ threads[t].at = "return"
    /\ Goes(t, "done", heap.ConsoleSingleton._instance)
    /\ UNCHANGED heap

LoggerStep(t) ==
    \/ LoggerCheck(t) \/ LoggerAcquire(t) \/ LoggerCheckLocked(t) \/ LoggerNew(t)
    \/ LoggerConfigure(t) \/ LoggerRelease(t) \/ LoggerReturn(t) \/ GetLogger(t)

ConsoleStep(t) ==
    ConsoleCheck(t) \/ ConsoleConstruct(t) \/ ConsoleAssign(t) \/ ConsoleReturn(t)

NextThreads ==
    /\ \E t \in Threads : LoggerStep(t) \/ ConsoleStep(t)
    /\ UNCHANGED <<config, call, ret, driver>>

SpecThreads == InitThreads /\ [][NextThreads]_vars

---------------------------------------------------------------------------
(* SpecColor: normalize_hex_color applied to a colour, and the colours of  *)
(* a SaleParams built by from_dict from a rule of the configuration.       *)

MaxHexLen == 8

\* Two hexadecimal digits, one of them in upper case, and a letter that is
\* none.
ColorChars == {"1", "F", "g"}

HexTexts ==
    {hashes \o body : hashes \in {<<>>, <<"#">>, <<"#", "#">>},
                      body \in SeqsUpTo(ColorChars, MaxHexLen)}

RgbNumbers == {<<"0">>, <<"1", "7">>, <<"2", "5", "5">>, <<"9", "9", "9">>, <<"1", "0", "0", "0">>}

RgbForms ==
    {<< <<"r", "g", "b", "(">>, <<")">> >>,
     << <<"R", "G", "B", "(", " ">>, <<")", "g">> >>,
     << <<"r", "g", "b", "a", "(">>, <<",", ".", "5", ")">> >>,
     << <<>>, <<>> >>}

RgbTexts ==
    {f[1] \o r \o <<",">> \o g \o <<",">> \o b \o f[2] :
        f \in RgbForms, r \in RgbNumbers, g \in RgbNumbers, b \in RgbNumbers}

HslHues == {<<"0">>, <<"1", "2", "0">>, <<"4", "0", "0">>}
HslPercents == {<<"0">>, <<"2", "5">>, <<"5", "0">>, <<"1", "0", "0">>, <<"1", "5", "0">>}

HslTexts ==
    {<<"h", "s", "l", "(">> \o h \o <<",">> \o s \o pc1 \o <<",", " ">> \o l \o pc1 \o <<")">> :
        h \in HslHues, s \in HslPercents, l \in HslPercents, pc1 \in {<<>>, <<"%">>}}

NameTexts ==
    {<<"b", "l", "u", "e">>, <<"G", "o", "l", "d">>, <<" ", "a", "q", "u", "a", " ">>,
     <<"r", "e", "d">>}

\* What a colour of the configuration can be: a JSON string, null, a
\* number or an array.
ColorInputs ==
    {Str(s) : s \in HexTexts \cup RgbTexts \cup HslTexts \cup NameTexts}
    \cup {None, PyInt(5), PyList(<<>>)}

\* The colours of the rules of the model.
RuleColors ==
    {None, PyInt(5), PyList(<<>>), Str(<<"#", "4", "5", "F", "2", "0", "0">>),
     Str(<<"#", "1", "2", "3", "4">>), Str(<<"1", "2", "3", "4">>), Str(<<"f", "f", "f">>),
     Str(<<"b", "l", "u", "e">>), Str(<<"r", "e", "d">>), Str(<<>>),
     Str(<<"r", "g", "b", "(", "9", "9", "9", ",", "0", ",", "1", "7", ")">>),
     Str(<<"h", "s", "l", "(", "1", "2", "0", ",", "5", "0", ",", "2", "5", ")">>),
     Str(<<"1", "2", "3", "4", "5", "6", "7", "8">>), Str(<<"1", "2", "3", "4", "5">>)}

\* The rules: each colour key is absent or holds a colour.
ColorRules ==
    {[price_background_color_hex |-> b, price_font_color_hex |-> f] : b, f \in RuleColors}
    \cup {[price_background_color_hex |-> b] : b \in RuleColors}
    \cup {[price_font_color_hex |-> f] : f \in RuleColors}
    \cup {EmptyDict}

InitColor ==
    /\ config = [sale_list |-> <<>>]
    /\ call \in {[fn |-> "normalize_hex_color", color |-> c] : c \in ColorInputs}
            \cup {[fn |-> "SaleParams.from_dict", data |-> d] : d \in ColorRules}
    /\ ret = Pending
    /\ NoRun

NormalizeHexColorCall ==
    /\ call.fn = "normalize_hex_color"
    /\ ret = Pending
    /\ ret' = normalize_hex_color(call.color)
    /\ UNCHANGED <<config, call, run>>

FromDictColorsCall ==
    /\ call.fn = "SaleParams.from_dict"
    /\ ret = Pending
    /\ ret' = from_dict_colors(call.data)
    /\ UNCHANGED <<config, call, run>>

NextColor == NormalizeHexColorCall \/ FromDictColorsCall

SpecColor == InitColor /\ [][NextColor]_vars

---------------------------------------------------------------------------
(* Claims about Product._parse_variant, checked under SpecVariant. *)

\* The call returned a Variant: the element had a usable price.
GotVariant == call.fn = "_parse_variant" /\ ret.kind = "Variant"

\* The base price of the element of the call, read off its data-price.
BasePrice == DigitsToInt(call.variant.data_price.s)

HasRule == call.sale_params # None

\* The rule's apply_to flag for the region of the element.
RuleAppliesToRegion ==
    IF call.variant.eu THEN call.sale_params.apply_to["eu"]
    ELSE call.sale_params.apply_to["ua"]

\* What eval() does with the rule's formula at the element's base price.
Evaluated == EvalFormula(call.sale_params.price_formula.s, PyInt(BasePrice))

\* C1: a Variant of a region the rule does not apply to keeps its base
\* price, carries no rule, and shows no trace of the formula having been
\* evaluated (neither the rule's info text nor an error note).
C1_RegionGate ==
    (GotVariant /\ HasRule /\ ~RuleAppliesToRegion)
        => /\ ret.price = PyInt(BasePrice)
           /\ ret.sale_params = None
           /\ ret.info = Str(<<>>)

C1_Witness ==
    /\ GotVariant /\ HasRule /\ ~RuleAppliesToRegion
    /\ call.variant.eu
    /\ call.sale_params.price_formula.s = <<"x", "/", "0">>
    /\ BasePrice = 900
    /\ ret.price = PyInt(900)

\* C2: when the rule applies to the region and its formula evaluates to a
\* value equal to the base price, the Variant carries no rule.
C2_NoOpSuppressed ==
    (GotVariant /\ HasRule /\ RuleAppliesToRegion
        /\ Evaluated.ok /\ NumEq(Evaluated.v, PyInt(BasePrice)))
        => ret.sale_params = None

C2_Witness ==
    /\ GotVariant /\ HasRule /\ RuleAppliesToRegion
    /\ call.sale_params.price_formula.s = <<"x", "/", "1">>
    /\ BasePrice = 500
    /\ ret.sale_params = None

\* C3: when the rule applies to the region and its formula evaluates to a
\* value different from the base price, the Variant has that value as its
\* price, the rule as its sale_params and the rule's info_text as its info
\* (the empty str for a rule without one); x*2/3 on a UA element of price
\* 900 gives 600 with the rule set.
C3_RuleApplied ==
    /\ (GotVariant /\ HasRule /\ RuleAppliesToRegion
            /\ Evaluated.ok /\ ~NumEq(Evaluated.v, PyInt(BasePrice)))
        => /\ ret.price = Evaluated.v
           /\ ret.sale_params = call.sale_params
           /\ ret.info = IF call.sale_params.info_text = None THEN Str(<<>>)
                         ELSE call.sale_params.info_text
    /\ (GotVariant /\ HasRule /\ RuleAppliesToRegion /\ ~call.variant.eu
            /\ call.sale_params.price_formula.s = <<"x", "*", "2", "/", "3">>
            /\ call.variant.data_price.s = <<"9", "0", "0">>)
        => /\ ret.price.n = 600 /\ ret.price.d = 1
           /\ ret.sale_params = call.sale_params

C3_Witness ==
    /\ GotVariant /\ HasRule /\ ~call.variant.eu
    /\ call.sale_params.apply_to["ua"]
    /\ call.sale_params.price_formula.s = <<"x", "*", "2", "/", "3">>
    /\ call.variant.data_price.s = <<"9", "0", "0">>
    /\ ret.price.n = 600
    /\ ret.sale_params # None
    /\ ret.info = Str(<<"1+1=3">>)

IsGiftRule ==
    call.sale_params.price_formula.s =
        <<"x", "-", "100", " ", "if", " ", "x", ">", "680", " ", "else", " ", "x">>

\* C4: under the rule "x-100 if x>680 else x" applying to the region, a base
\* price of at most 680 is kept and no rule is set; a base price above 680
\* is lowered by 100 and the rule is set.
C4_GiftThreshold ==
    (GotVariant /\ HasRule /\ RuleAppliesToRegion /\ IsGiftRule)
        => /\ BasePrice <= 680
                => ret.price = PyInt(BasePrice) /\ ret.sale_params = None
           /\ BasePrice > 680
                => ret.price = PyInt(BasePrice - 100)
                   /\ ret.sale_params = call.sale_params

C4_Witness ==
    /\ GotVariant /\ HasRule /\ RuleAppliesToRegion /\ IsGiftRule
    /\ BasePrice = 800
    /\ ret.price = PyInt(700)
    /\ ret.sale_params = call.sale_params

\* Whether the rule has an info_text (None and '' count as having none).
HasInfoText ==
    call.sale_params.info_text # None /\ call.sale_params.info_text.s # <<>>

\* C6: when the formula fails, the Variant's info is exactly
\* "Error applying sale formula '<formula>'", preceded by "<info_text>, but "
\* when the rule has an info_text.
C6_ErrorNoteFormat ==
    (GotVariant /\ HasRule /\ RuleAppliesToRegion /\ ~Evaluated.ok)
        => ret.info.s =
             (IF HasInfoText
              THEN call.sale_params.info_text.s \o <<", but ">> ELSE <<>>)
             \o <<"Error applying sale formula '">>
             \o call.sale_params.price_formula.s \o <<"'">>

C6_Witness ==
    /\ GotVariant /\ HasRule /\ RuleAppliesToRegion
    /\ call.sale_params.price_formula.s = <<"x", "+">>
    /\ call.sale_params.info_text = Str(<<"1+1=3">>)
    /\ ret.info.s = <<"1+1=3", ", but ", "Error applying sale formula '", "x", "+", "'">>

---------------------------------------------------------------------------
(* Claims about Product.from_url, checked under SpecExtract. *)

\* from_url has ended, by returning or by raising.
ExtractEnded == call.fn = "from_url" /\ ret # Pending

\* from_url returned the Product of its success path.
Extracted == ExtractEnded /\ ~ret.raise /\ ~ret.v.has_error

\* The variant elements of the page of the call.
Elements ==
    IF call.page.product_item.buy = None THEN <<>>
    ELSE call.page.product_item.buy.variants

\* The element has a data-price made of decimal digits.
HasPrice(el) ==
    /\ el.data_price # None
    /\ Len(el.data_price.s) > 0
    /\ \A k \in 1..Len(el.data_price.s) :
          el.data_price.s[k] \in {"0", "1", "2", "3", "4", "5", "6", "7", "8", "9"}

\* The formula of the Product's rule fails on the element: the rule applies
\* to the element's region and eval() raises at the element's price.
FormulaFailsOn(el) ==
    /\ HasPrice(el)
    /\ ret.v.sale_params # None
    /\ ret.v.sale_params.apply_to[IF el.eu THEN "eu" ELSE "ua"]
    /\ ~EvalFormula(ret.v.sale_params.price_formula.s,
                    PyInt(DigitsToInt(el.data_price.s))).ok

\* C5: a formula that fails on a variant is no failure of from_url: the
\* Product is returned without error, that variant keeps its base price,
\* carries no rule and has "Error applying sale formula" in its info, and
\* every other element with a price still gives its Variant.
C5_FormulaFailureRecovered ==
    Extracted =>
        /\ Len(ret.v.positions) = Len(Elements)
        /\ \A i \in 1..Len(Elements) :
              /\ HasPrice(Elements[i]) => ret.v.positions[i].kind = "Variant"
              /\ FormulaFailsOn(Elements[i]) =>
                    /\ ret.v.positions[i].price =
                           PyInt(DigitsToInt(Elements[i].data_price.s))
                    /\ ret.v.positions[i].sale_params = None
                    /\ IsSubstring(<<"Error applying sale formula '">>,
                                   ret.v.positions[i].info.s)

C5_Witness ==
    /\ Extracted
    /\ Len(Elements) = 2
    /\ FormulaFailsOn(Elements[1])
    /\ ~FormulaFailsOn(Elements[2])
    /\ ret.v.positions[1].info.s = <<"Error applying sale formula '", "x", "/", "0",
                                     " ", "if", " ", "x", ">", "680", " ", "else",
                                     " ", "x", "'">>
    /\ ret.v.positions[2].kind = "Variant"
    /\ ret.v.positions[2].price = PyInt(500)
    /\ ret.v.positions[2].info = Str(<<>>)

\* The stripped text of the attention link, or None without block or link.
PromoText ==
    IF call.page.product_item.message = None THEN None
    ELSE IF call.page.product_item.message.attention = None THEN None
    ELSE Str(Strip(call.page.product_item.message.attention.s))

\* The entries of sale_list whose text_for_search occurs in the promo text.
Matching ==
    IF PromoText = None THEN {}
    ELSE {i \in 1..Len(config.sale_list) :
             IsSubstring(config.sale_list[i].text_for_search.s, PromoText.s)}

FirstMatching == CHOOSE i \in Matching : \A j \in Matching : i <= j

\* The SaleParams of an entry of sale_list.
RuleOf(sale_item) ==
    SaleParams(sale_item.text_for_search, sale_item.apply_to, sale_item.price_formula,
               IF "info_text" \in DOMAIN sale_item THEN sale_item.info_text ELSE None)

\* C7: for a page with a product item, the Product's rule is the first
\* entry of sale_list whose text_for_search occurs in the text of the
\* attention link, and None when the block, the link or the text is missing
\* or no entry occurs in it.
C7_FirstMatchInOrder ==
    (ExtractEnded /\ call.page.fetch = "ok" /\ call.page.product_item # None)
        => /\ ~ret.raise
           /\ ret.v.sale_params =
                 IF Matching = {} THEN None
                 ELSE RuleOf(config.sale_list[FirstMatching])

\* C8: from_url always returns a Product; when the fetch fails, the
\* product item is missing, or anything else raises, that Product has
\* has_error set, no positions, and the note of its failure class.
C8_ExtractNeverRaises ==
    ExtractEnded =>
        /\ ~ret.raise
        /\ ret.v.kind = "Product"
        /\ call.page.fetch # "ok" =>
              /\ ret.v.has_error /\ ret.v.positions = <<>>
              /\ ret.v.info = Str(<<"Request error!">>)
        /\ (call.page.fetch = "ok" /\ call.page.product_item = None) =>
              /\ ret.v.has_error /\ ret.v.positions = <<>>
              /\ ret.v.info = Str(<<"Product not found">>)
        /\ LET t == FromUrlTry(call.url, call.page, config.sale_list, <<>>)
           IN (t.raise /\ ~IsRequestException(t.exc)) =>
                 /\ ret.v.has_error /\ ret.v.positions = <<>>
                 /\ ret.v.info = Str(<<"Unexpected error">>)
        /\ ret.v.has_error =>
              /\ ret.v.positions = <<>>
              /\ ret.v.info \in {Str(<<"Request error!">>), Str(<<"Product not found">>),
                                 Str(<<"Unexpected error">>)}

C8_Witness ==
    /\ ExtractEnded /\ ~ret.raise
    /\ call.page.fetch = "ok" /\ call.page.product_item # None
    /\ ret.v.has_error
    /\ ret.v.positions = <<>>
    /\ ret.v.info = Str(<<"Unexpected error">>)

---------------------------------------------------------------------------
(* Claims about the run of process_product_list, checked under Spec. *)

\* The last iteration fetched a page with a product item and went through
\* Product.from_url and process_product_row.
Reported ==
    /\ cur # None
    /\ cur.it.outcome \in {"none", "sale", "regular", "error"}
    /\ cur.page.fetch = "ok"
    /\ cur.page.product_item # None

\* The variant elements of the page of the last iteration.
RowElements ==
    IF cur.page.product_item.buy = None THEN <<>>
    ELSE cur.page.product_item.buy.variants

\* The Product that from_url gave in the last iteration.
RowProduct == from_url(cur.row[1], cur.page, config.sale_list).v

\* The elements of the page from the i-th on that have a price.
RECURSIVE Priced(_, _)
Priced(elements, i) ==
    IF i > Len(elements) THEN <<>>
    ELSE IF HasPrice(elements[i]) THEN <<elements[i]>> \o Priced(elements, i + 1)
    ELSE Priced(elements, i + 1)

\* The rows of the variants from the i-th on that are cheaper than the
\* reference price and pass the title filter.
RECURSIVE CheaperRows(_, _, _, _, _)
CheaperRows(product, variants, ref_price, target_variant, i) ==
    IF i > Len(variants) THEN <<>>
    ELSE IF /\ NumLt(variants[i].price, ref_price)
            /\ (~Truthy(target_variant)
                \/ IsSubstring(target_variant.s, TitleOrEmpty(variants[i])))
         THEN <<VariantRow(product, variants[i], ref_price)>>
              \o CheaperRows(product, variants, ref_price, target_variant, i + 1)
    ELSE CheaperRows(product, variants, ref_price, target_variant, i + 1)

\* C9: an element whose price is missing or no number is dropped from the
\* positions of its product, which hold Variants only and no None in its
\* place; it is noted on the product; and the other variants are reported
\* as those of any product: the rows of the iteration are the rows of the
\* priced variants that are cheaper than the reference price and pass the
\* title filter, under a product without error.
C9_BadPriceDropped ==
    (Reported /\ ~RowProduct.has_error) =>
        /\ Len(RowProduct.positions) = Len(Priced(RowElements, 1))
        /\ \A i \in 1..Len(RowProduct.positions) :
              /\ RowProduct.positions[i] # None
              /\ RowProduct.positions[i].kind = "Variant"
              /\ RowProduct.positions[i].title = Priced(RowElements, 1)[i].title
        /\ Len(Priced(RowElements, 1)) < Len(RowElements) => Truthy(RowProduct.info)
        /\ cur.it.outcome # "error"
        /\ cur.it.processed_rows =
              IF CheaperRows(RowProduct, SelectSeq(RowProduct.positions, LAMBDA v : v # None),
                             cur.it.ref_price, TargetVariant(cur.row), 1) = <<>>
              THEN None
              ELSE PyList(CheaperRows(RowProduct,
                                      SelectSeq(RowProduct.positions, LAMBDA v : v # None),
                                      cur.it.ref_price, TargetVariant(cur.row), 1))

\* The positions of the product of the last iteration that give a row:
\* Variants that pass the test of process_product_row.
IncludedPositions ==
    {i \in 1..Len(RowProduct.positions) :
        /\ RowProduct.positions[i] # None
        /\ Included(RowProduct, RowProduct.positions[i], cur.it.ref_price,
                    TargetVariant(cur.row))}

\* C11: a product with an included variant goes to the on-sale list if and
\* only if some included variant carries a rule (one that changed its
\* price), else to the regular list; a product with has_error goes to the
\* error list whatever its prices.  A product whose rule matched the page
\* but changed the price of no included variant goes to the regular list.
\* (Stated of the products whose positions are all Variants.)
C11_ClassifiedByAppliedRule ==
    (/\ Reported
     /\ \A i \in 1..Len(RowProduct.positions) : RowProduct.positions[i] # None
     /\ (RowProduct.has_error \/ IncludedPositions # {})) =>
        cur.it.outcome =
            IF RowProduct.has_error THEN "error"
            ELSE IF \E i \in IncludedPositions :
                       RowProduct.positions[i].sale_params # None
                 THEN "sale"
            ELSE "regular"

\* The product the iteration ended with is in error and has no positions:
\* the error Product of from_url, or the one of the except branch.
EndedInError(c) ==
    /\ c # None
    /\ c.it.product # None
    /\ c.it.product.has_error
    /\ c.it.product.positions = <<>>

\* The rows of the error list, one after the other.
ErrorRows(products) ==
    [i \in 1..Len(products) |-> products[i].items[1]]

RowsGiven ==
    SelectSeq(log, LAMBDA e : e.call = "row" /\ e.it.processed_rows # None)

\* The group of the product of an iteration: error for a product in error,
\* on sale when a variant that gave a row carries a rule, else regular.
GroupOf(e) ==
    IF e.it.product.has_error THEN "error"
    ELSE IF \E i \in 1..Len(e.it.product.positions) :
               /\ Included(e.it.product, e.it.product.positions[i], e.it.ref_price,
                           e.target_variant)
               /\ e.it.product.positions[i].sale_params # None
         THEN "sale"
    ELSE "regular"

\* The rows of the iterations of a group, in the order of the input rows.
RECURSIVE RowsOfGroup(_, _)
RowsOfGroup(given, group) ==
    IF Len(given) = 0 THEN <<>>
    ELSE IF GroupOf(given[1]) = group
         THEN given[1].it.processed_rows.items \o RowsOfGroup(Tail(given), group)
    ELSE RowsOfGroup(Tail(given), group)

\* C13: in the written sheet the rows of the on-sale products come first,
\* then those of the regular products, then those of the error products,
\* whatever the order of the input rows; within a group the products keep
\* the order of the input rows.
C13_GroupsInOrder ==
    (pc = "returned" /\ files.output = "written") =>
        sheet = RowsOfGroup(RowsGiven, "sale") \o RowsOfGroup(RowsGiven, "regular")
                    \o RowsOfGroup(RowsGiven, "error")

\* The text of a column of a row; empty for a column the row does not have.
ColumnOf(row, k) == IF k <= Len(row) THEN row[k].s ELSE <<>>

\* No reference price can be obtained from the row: its USD column is
\* filled with a text that is no number, or is empty or missing while the
\* local-currency column is empty, missing or no integer.
NoReference(row) ==
    IF ColumnOf(row, 3) # <<>> THEN PyFloat(ReplaceComma(ColumnOf(row, 3))).raise
    ELSE ColumnOf(row, 4) = <<>> \/ PyIntOf(ColumnOf(row, 4)).raise

\* C15: an input row from which no reference price can be obtained, be its
\* price text no number, its price columns empty or its price columns
\* missing, is skipped: no product is fetched for it and the run goes on
\* to the later rows instead of ending with an exception.
C15_MalformedRowSkipped ==
    (cur # None /\ NoReference(cur.row)) =>
        /\ cur.it.outcome = "skipped"
        /\ cur.it.product = None
        /\ pc # "raised"

\* The places of the log where the rate was fetched.
UsdFetches == {i \in 1..Len(log) : log[i].call = "get_usd"}

\* The places of the log where a product page was fetched.
PageFetches == {i \in 1..Len(log) : log[i].call = "row" /\ log[i].from_url}

\* C16: the USD rate is fetched once in a run and before any product page
\* is fetched; when that fetch fails the run ends with an exception,
\* without having fetched a product page and without a product row written.
C16_UsdOnceAndFirst ==
    /\ Cardinality(UsdFetches) <= 1
    /\ pc \in {"initialize_workbook", "loop", "returned"} => Cardinality(UsdFetches) = 1
    /\ \A i \in PageFetches : \E j \in UsdFetches : j < i /\ ~log[j].raised
    /\ \A j \in UsdFetches :
           log[j].raised =>
               /\ pc = "raised"
               /\ ret.raise
               /\ \A i \in 1..Len(log) : log[i].call # "row"
               /\ sheet = <<>>
               /\ files.output # "written"

\* The fetch of the rate failed and the run ended there.
C16_Witness ==
    /\ \E j \in UsdFetches : log[j].raised
    /\ pc = "raised"
    /\ Len(log) = 1

\* What Product.from_url gave in the iteration.
Fetched(c) == from_url(c.row[1], c.page, config.sale_list)

\* The iteration had a reference price and an exception was raised in it:
\* in Product.from_url, which then gave a product in error, or in
\* process_product_row.
Failed(c) ==
    /\ c # None
    /\ c.it.ref_price # None
    /\ \/ Fetched(c).raise
       \/ Fetched(c).v.has_error
       \/ process_product_row(Fetched(c).v, c.it.ref_price, TargetVariant(c.row)).raise

\* C17: an exception raised while the product of a row with a reference
\* price is fetched or its rows are built does not leave the loop: the
\* iteration adds one diagnostic row that names the url of the row to the
\* error list, the rows collected from earlier products stay as they
\* were, the loop goes on to the later rows, and when the run returns all
\* the collected rows are in the sheet.
C17_RowErrorIsolated ==
    [][/\ (pc = "loop" /\ nrows' = nrows + 1 /\ Failed(cur')) =>
            /\ pc' = "loop"
            /\ ret' = Pending
            /\ sale_products' = sale_products
            /\ regular_products' = regular_products
            /\ Len(error_products') = Len(error_products) + 1
            /\ SubSeq(error_products', 1, Len(error_products)) = error_products
            /\ Len(error_products'[Len(error_products')].items) = 1
            /\ error_products'[Len(error_products')].items[1][8] = cur'.row[1]
       /\ (pc = "loop" /\ pc' = "returned") =>
            sheet' = WrittenRows(sale_products) \o WrittenRows(regular_products)
                         \o WrittenRows(error_products)
      ]_vars

\* process_product_row raised for the first row, the second row gave the
\* rows of a regular product, and the run returned with all of them written.
C17_Witness ==
    /\ pc = "returned"
    /\ Len(log) = 3
    /\ log[2].it.outcome = "error"
    /\ log[2].it.product.name = Str(<<"Unknown">>)
    /\ log[3].it.outcome = "regular"
    /\ Failed(cur) = FALSE
    /\ Len(error_products) = 1
    /\ Len(regular_products) = 1
    /\ sheet = WrittenRows(regular_products) \o WrittenRows(error_products)

\* C19: a run in which no product gave a row still ends with the output
\* workbook created and closed, holding the header row and no product row.
C19_EmptyRunWritesHeaders ==
    (/\ pc = "returned"
     /\ Len(regular_products) + Len(sale_products) + Len(error_products) = 0)
        => (files.output = "written" /\ sheet = <<>>)

\* The calls of the run that take time or reach the site, in order.
RECURSIVE CallsOf(_)
CallsOf(entries) ==
    IF Len(entries) = 0 THEN <<>>
    ELSE (IF entries[1].call = "row" THEN entries[1].calls ELSE <<>>)
             \o CallsOf(Tail(entries))

\* C21: the product pages are fetched one at a time, and each fetch of a
\* product page comes right after a sleep of the delay, so that no two
\* fetches follow one another without a delay between them.
C21_DelayBeforeFetch ==
    \A i \in 1..Len(CallsOf(log)) :
        CallsOf(log)[i] = "requests.get" =>
            (i > 1 /\ CallsOf(log)[i - 1] = "time.sleep")

\* get_usd returned a rate.
UsdFetched == \E i \in 1..Len(log) : log[i].call = "get_usd" /\ ~log[i].raised

\* C28: the output file is removed or written only by a step that comes
\* after the input file was loaded and get_usd returned a rate; so a run
\* that ends for a missing input file or a failed get_usd leaves an
\* existing output file as it was.
C28_FailedStartKeepsOutput ==
    [][files'.output # files.output
           => /\ files.input
              /\ UsdFetched
              /\ pc \notin {"load_input_data", "get_usd"}]_vars

\* get_usd failed, the run is over, and the old output file is still there.
C28_Witness ==
    /\ pc = "raised"
    /\ files.input
    /\ log = <<[call |-> "get_usd", raised |-> TRUE]>>
    /\ files.output = "old"

\* The try block of Product.from_url returned the Product of a page that
\* has a product item.
SuccessPath(c) ==
    /\ c.page.fetch = "ok"
    /\ c.page.product_item # None
    /\ ~FromUrlTry(c.row[1], c.page, config.sale_list, <<>>).raise

\* A Product in error has no positions.
NoVariantsInError(product) == product.has_error => product.positions = <<>>

\* C30: a Product in error, be it made by Product.from_url or by the except
\* branch of the loop, has no positions, and the Product of the success
\* path of Product.from_url is not in error; so every row of a variant in
\* the rows of an iteration is there for its price, which is less than the
\* reference price.
C30_ErrorProductsHaveNoVariants ==
    (cur # None /\ cur.it.product # None) =>
        /\ NoVariantsInError(cur.it.product)
        /\ NoVariantsInError(Fetched(cur).v)
        /\ SuccessPath(cur) => ~Fetched(cur).v.has_error
        /\ cur.it.processed_rows # None =>
               \A k \in 1..Len(cur.it.processed_rows.items) :
                   cur.it.processed_rows.items[k][5] # None =>
                       NumLt(cur.it.processed_rows.items[k][5],
                             cur.it.processed_rows.items[k][4])

\* Product.from_url gave a Product with positions, not in error, and
\* process_product_row raised on it: the Product of the except branch is in
\* error and has no positions.
C30_Witness ==
    /\ cur # None
    /\ cur.it.outcome = "error"
    /\ cur.it.product.has_error
    /\ cur.it.product.positions = <<>>
    /\ SuccessPath(cur)
    /\ Fetched(cur).v.positions # <<>>
    /\ ~Fetched(cur).v.has_error
    /\ Len(cur.it.processed_rows.items) = 1

---------------------------------------------------------------------------
(* Claims about the reference price of a row, checked under SpecRef. *)

\* The reference price of the call was computed.
RefComputed == call.fn \in {"parse_ref_price", "process_data"} /\ ret # Pending

\* The text of the column of the row of the call; empty for a column the
\* row does not have.
ColumnText(k) == IF k <= Len(call.row) THEN call.row[k].s ELSE <<>>

\* r is n / d rounded: the nearest integer, the even one of two nearest.
Rounded(r, n, d) ==
    /\ 2 * Abs(r * d - n) <= d
    /\ 2 * Abs(r * d - n) = d => r % 2 = 0

\* The call returned the integer r.
ReturnedInt(r) ==
    /\ ~ret.raise
    /\ ret.v.kind = "num"
    /\ ret.v.t = "int"
    /\ ret.v.d = 1
    /\ ret.v.n = r

\* C14: a row whose USD column spells a number has the reference price
\* round(usd_value * usd_rate), whatever its local-currency column holds;
\* the local-currency column is used, as an integer, only when the USD
\* column is empty; the USD text "10" at the rate 41.5 gives 415.
C14_UsdWins ==
    RefComputed =>
        /\ \A u \in UsdValues :
               ColumnText(3) = u.text =>
                   \E r \in 0..(u.n * call.usd_rate.n) :
                       /\ ReturnedInt(r)
                       /\ Rounded(r, u.n * call.usd_rate.n, u.d * call.usd_rate.d)
        /\ \A l \in LocalValues :
               (ColumnText(3) = <<>> /\ Len(call.row) >= 4 /\ ColumnText(4) = l.text)
                   => ReturnedInt(l.n)
        /\ (ColumnText(3) # <<>> /\ \A u \in UsdValues : ColumnText(3) # u.text)
               => (ret.raise \/ ret.v = None)
        /\ (ColumnText(3) = <<"1", "0">> /\ call.usd_rate = Num(83, 2, "float"))
               => ReturnedInt(415)

\* Both columns are filled, the USD one with 3: the reference price is
\* round(124.5) = 124 at the rate 41.5, not the 500 of the local column.
C14_Witness ==
    /\ RefComputed
    /\ call.fn = "parse_ref_price"
    /\ ColumnText(3) = <<"3">>
    /\ ColumnText(4) = <<"5", "0", "0">>
    /\ call.usd_rate = Num(83, 2, "float")
    /\ ReturnedInt(124)

---------------------------------------------------------------------------
(* Claims about the configuration, checked under SpecConfig. *)

\* The entry lacks a required key or its formula is no expression.
InvalidEntry(sale_item) ==
    \/ ~({"text_for_search", "apply_to", "price_formula"} \subseteq DOMAIN sale_item)
    \/ ~ParseFormula(sale_item["price_formula"].s).ok

InvalidSaleList(sale_list) ==
    \E i \in 1..Len(sale_list) : InvalidEntry(sale_list[i])

\* C18: loading a configuration file whose sale_list has an entry without
\* text_for_search, apply_to or price_formula, or with a price_formula that
\* is no expression, fails with ConfigError, so that no product is
\* processed under such a sale_list.
C18_ConfigValidated ==
    /\ (/\ call.fn = "_load_config"
        /\ ret # Pending
        /\ files.config.exists
        /\ files.config.json
        /\ "sale_list" \in DOMAIN files.config.data
        /\ InvalidSaleList(files.config.data.sale_list))
           => ret = Raise("ConfigError")
    /\ call.fn = "from_url" => ~InvalidSaleList(config.sale_list)

---------------------------------------------------------------------------
(* Claims about XlsxTableGenerator, checked under SpecTable. *)

\* The column entries of the configuration, in its order: the items of
\* xlsx_table_settings whose key does not start with "_".
ColumnEntries ==
    SelectSeq(config.xlsx_table_settings, LAMBDA item : ~StartsWithUnderscore(item.key))

\* The columns of the cells of a row of the worksheet.
ColumnsOf(row) == {place[2] : place \in {q \in DOMAIN sheet : q[1] = row}}

\* The cell that column entry k gives for a row that was written.
EntryCell(k, written, format_dict) ==
    prepare_cell_data(
        get_cell_value(XlsxColumnSetting_from_dict(ColumnEntries[k].column).type,
                       written.product, written.variant, written.ref_price),
        XlsxColumnSetting_from_dict(ColumnEntries[k].column), format_dict)

\* C20: a generator made from a configuration with N column entries has
\* exactly N header cells in row 0, the k-th with the header of the k-th
\* entry, and every data row it writes, for a variant or for a product
\* without variants, has exactly N cells, the k-th made from the k-th
\* entry.
C20_ColumnRoundTrip ==
    cur # None =>
        /\ ColumnsOf(0) = 0..(Len(ColumnEntries) - 1)
        /\ \A k \in 1..Len(ColumnEntries) :
               sheet[<<0, k - 1>>].value
                   = XlsxColumnSetting_from_dict(ColumnEntries[k].column).header
        /\ \A place \in DOMAIN sheet :
               place[1] >= 1 => ColumnsOf(place[1]) = 0..(Len(ColumnEntries) - 1)
        /\ \A i \in 1..Len(log) :
               /\ ColumnsOf(log[i].row_index) = 0..(Len(ColumnEntries) - 1)
               /\ \A k \in 1..Len(ColumnEntries) :
                      sheet[<<log[i].row_index, k - 1>>]
                          = EntryCell(k, log[i],
                                      sheet[<<log[i].row_index, k - 1>>].format_dict)

\* Two column entries after a comment-free configuration, a row of a
\* product without variants whose price cell is empty, and a row of a
\* variant.
C20_Witness ==
    /\ cur # None
    /\ Len(ColumnEntries) = 2
    /\ ColumnEntries[1].column = [type |-> Str(<<"Name">>), header |-> Str(<<"Product">>)]
    /\ ColumnEntries[2].column = [type |-> Str(<<"mprice">>)]
    /\ Len(log) = 2
    /\ log[1].variant = None
    /\ log[2].variant # None
    /\ sheet[<<1, 0>>].is_hyperlink
    /\ sheet[<<1, 1>>].value = None
    /\ sheet[<<2, 1>>].value = PyInt(500)
    /\ sheet[<<0, 1>>].value = Str(<<"mprice">>)

---------------------------------------------------------------------------
(* Claims about the price of a Variant, checked under SpecVariant. *)

\* C27: the price of every Variant that _parse_variant returns is an int,
\* whether or not a formula was applied to the base price.
C27_FinalPriceInteger ==
    GotVariant => ret.price.kind = "num" /\ ret.price.t = "int"

\* C29: when the rule applies to the region of the element and its formula
\* evaluates, the Variant's info is the rule's info_text (the empty str for
\* a rule without one), also when the value equals the base price and the
\* Variant carries no rule; without a rule, or with a rule that does not
\* apply to the region, the info is the empty str.
C29_NoteFollowsEvaluation ==
    /\ (GotVariant /\ HasRule /\ RuleAppliesToRegion /\ Evaluated.ok)
        => ret.info = IF HasInfoText THEN call.sale_params.info_text ELSE Str(<<>>)
    /\ (GotVariant /\ (~HasRule \/ ~RuleAppliesToRegion))
        => ret.info = Str(<<>>)

\* The formula x/1 left the price at 500: no rule on the Variant, and the
\* rule's info_text as its info.
C29_Witness ==
    /\ GotVariant /\ HasRule /\ RuleAppliesToRegion
    /\ call.sale_params.price_formula.s = <<"x", "/", "1">>
    /\ call.sale_params.info_text = Str(<<"1+1=3">>)
    /\ BasePrice = 500
    /\ ret.sale_params = None
    /\ ret.info = Str(<<"1+1=3">>)

---------------------------------------------------------------------------
(* Claims about the cursor of XlsxTableGenerator, checked under SpecTable. *)

\* The header row as set_headers wrote it.
HeaderRow(table_settings) == SetHeaders(<<>>, table_settings, 0)

\* C26: row_index starts at 1, under the header row, and is one more than
\* the number of rows written; the i-th row written is at index i, so no
\* two rows share an index; nothing is written under the cursor's row, the
\* header row stays as set_headers wrote it, and no step of the generator
\* moves row_index back.
C26_CursorAdvances ==
    /\ [](cur # None =>
            /\ cur.row_index = 1 + Len(log)
            /\ \A i \in 1..Len(log) : log[i].row_index = i
            /\ \A place \in DOMAIN sheet : place[1] <= cur.row_index
            /\ \A place \in DOMAIN HeaderRow(cur.table_settings) :
                   /\ place \in DOMAIN sheet
                   /\ sheet[place] = HeaderRow(cur.table_settings)[place])
    /\ [][(cur # None /\ cur' # None)
             => cur'.row_index \in {cur.row_index + n : n \in 0..MaxVariants}]_vars
    /\ [][(cur = None /\ cur' # None) => cur'.row_index = 1]_vars

\* Rows were written, and the add_product after them raised and left the
\* cursor where it was.
C26_Witness ==
    /\ cur # None
    /\ Len(log) >= 2
    /\ cur.row_index = 1 + Len(log)
    /\ call.fn = "add_product"
    /\ ret = Raise("RuntimeError")

---------------------------------------------------------------------------
(* Claims about the singletons, checked under SpecThreads. *)

\* The objects of a class made so far.
ObjectsOf(class) == {o \in 1..Len(heap.objects) : heap.objects[o].class = class}

\* C22: however the threads that call get_logger() interleave, one
\* LoggerSingleton object is made, _configure_logger runs once, and a
\* thread gets the object, and reads its logger, only after
\* _configure_logger is through.
C22_LoggerThreadSafe ==
    /\ Cardinality(ObjectsOf("LoggerSingleton")) <= 1
    /\ heap.configure_logger <= 1
    /\ \A t \in Threads :
           (threads[t].fn = "get_logger" /\ threads[t].at \in {"get_logger", "done", "raised"})
               => /\ Cardinality(ObjectsOf("LoggerSingleton")) = 1
                  /\ heap.configure_logger = 1
                  /\ heap.objects[threads[t].instance].logger
                  /\ threads[t].at # "raised"

\* C23: however the threads that call ConsoleSingleton() interleave, at
\* most one ConsoleSingleton object is made and every call returns it.
C23_ConsoleThreadSafe ==
    /\ Cardinality(ObjectsOf("ConsoleSingleton")) <= 1
    /\ \A t, u \in Threads :
           (/\ threads[t].fn = "ConsoleSingleton" /\ threads[t].at = "done"
            /\ threads[u].fn = "ConsoleSingleton" /\ threads[u].at = "done")
               => threads[t].instance = threads[u].instance

---------------------------------------------------------------------------
(* Claims about the colours, checked under SpecColor. *)

\* A hexadecimal digit, of either case.
IsHexDigit(c) == IsHexChar(c) \/ (c \in DOMAIN AsciiLower /\ IsHexChar(AsciiLower[c]))

\* s is n hexadecimal digits after an optional #.
HexDigitsText(s, n) ==
    /\ Len(s) \in {n, n + 1}
    /\ Len(s) = n + 1 => s[1] = "#"
    /\ \A k \in 1..Len(s) : IsHexDigit(s[k]) \/ (k = 1 /\ Len(s) = n + 1)

\* C24: normalize_hex_color returns None for every str that is an optional
\* # followed by exactly four hexadecimal digits.
C24_FourDigitsRejected ==
    (/\ call.fn = "normalize_hex_color"
     /\ ret # Pending
     /\ call.color.kind = "str"
     /\ HexDigitsText(call.color.s, 4))
        => ret = Return(None)

\* A colour of a SaleParams is None or # and six hexadecimal digits.
WellFormedColor(v) ==
    \/ v = None
    \/ /\ v.kind = "str"
       /\ Len(v.s) = 7
       /\ v.s[1] = "#"
       /\ \A k \in 2..7 : IsHexDigit(v.s[k])

\* The colours normalize_hex_color documents as colours: a name of
\* COLOR_NAMES, an rgb, rgba or hsl text, three or six hexadecimal digits,
\* or eight (six and an alpha channel).  Four digits are documented as None.
ValidColorText(s) ==
    \/ s \in DOMAIN COLOR_NAMES
    \/ RgbMatch(RemoveBlanks(s)) # <<>>
    \/ HslMatch(RemoveBlanks(s)) # <<>>
    \/ /\ Len(LStripHash(s)) \in {3, 6, 8}
       /\ \A k \in 1..Len(LStripHash(s)) : IsHexChar(LStripHash(s)[k])

ValidColor(data, key) ==
    /\ key \in DOMAIN data
    /\ data[key].kind = "str"
    /\ ValidColorText(StrLower(Strip(data[key].s)))

\* C25: the two colours of every SaleParams built from a rule of the
\* configuration are None or # and six hexadecimal digits, and the colour
\* of a key that is absent or holds no valid colour is None.
C25_SaleColorsWellFormed ==
    (call.fn = "SaleParams.from_dict" /\ ret # Pending)
        => /\ ~ret.raise
           /\ \A key \in {"price_background_color_hex", "price_font_color_hex"} :
                  /\ WellFormedColor(ret.v[key])
                  /\ ~ValidColor(call.data, key) => ret.v[key] = None

---------------------------------------------------------------------------
(* Claims about ExcelProcessor.process_data, checked under SpecSheet. *)

\* The line was processed with a reference price and a parsed product.
LineWritten == call.fn = "process_data" /\ ret # Pending /\ ret.product # None

\* The rows of the variants from the i-th on whose price is strictly less
\* than the reference price and whose title holds the title filter.
RECURSIVE StrictlyCheaperRows(_, _, _, _)
StrictlyCheaperRows(product, ref_price, variant_filter, i) ==
    IF i > Len(product.variants) THEN <<>>
    ELSE IF /\ NumLt(product.variants[i].price, ref_price)
            /\ (~Truthy(variant_filter)
                \/ IsSubstring(variant_filter.s, product.variants[i].title.s))
         THEN <<SheetRow(product, product.variants[i], ref_price)>>
              \o StrictlyCheaperRows(product, ref_price, variant_filter, i + 1)
    ELSE StrictlyCheaperRows(product, ref_price, variant_filter, i + 1)

\* C10: when the whole table is not asked for, a variant of a parsed
\* product gives a row if and only if its price is strictly less than the
\* reference price and the title filter is empty or occurs in its title; a
\* variant whose price equals the reference price gives no row.
C10_StrictlyCheaperIncluded ==
    (LineWritten /\ ~call.full_table) =>
        ret.rows = StrictlyCheaperRows(ret.product, ret.ref_price,
                                       PadLine(call.line)[2], 1)

====
